---- MODULE Spec2Model ----
(***************************************************************************)
(* wedis: the typed, expiring, transactional storage layer                 *)
(* (src/src/database.rs), the time helper (src/src/time.rs), the           *)
(* integer-counter commands and SET/SETEX (src/src/commands/strings.rs)    *)
(* and the expiry commands (src/src/commands/generic.rs).                  *)
(*                                                                         *)
(* The ordered store is a map from physical keys (prefix ++ logical key)   *)
(* to optional byte strings.  A byte string is a sequence of one-byte      *)
(* atoms; Option<T> is a sequence of length at most one (None is the empty *)
(* sequence, Some(v) holds v alone).  Time is counted in ticks, TicksPerMs *)
(* of them to the millisecond, so that as_millis() truncates.  i64 is      *)
(* scaled down to I64Bits bits, two's complement.                          *)
(***************************************************************************)
EXTENDS Integers, Sequences, FiniteSets, TLC

VARIABLES db, now, last, scen, conns, commits, srv

vars == <<db, now, last, scen, conns, commits, srv>>

\* the state of the connections that run handlers step by step, and of the
\* server that accepts them
conc == <<conns, commits, srv>>

---------------------------------------------------------------------------
(* Bounds of the model *)

I64Bits == 4
TicksPerMs == 2
MaxNow == 3
MaxDelta == 2
FloatCap == 1
MsPerSec == 2
MaxClock == 5

---------------------------------------------------------------------------
(* Option<T> *)

None == <<>>

Some(v) == <<v>>

IsSome(o) == Len(o) = 1

Unwrap(o) == o[1]

---------------------------------------------------------------------------
(* Scaled integer types *)

I64Max == 2^(I64Bits - 1) - 1

I64Min == -(2^(I64Bits - 1))

InI64(n) == n >= I64Min /\ n <= I64Max

\* two's complement wrap-around of a mathematical integer into i64
WrapI64(n) == ((n - I64Min) % 2^I64Bits) + I64Min

---------------------------------------------------------------------------
(* Text conversions *)

Digits == <<"0", "1", "2", "3", "4", "5", "6", "7", "8", "9">>

DigitSet == {Digits[i] : i \in 1..10}

DigitVal(c) == (CHOOSE i \in 1..10 : Digits[i] = c) - 1

RECURSIVE NatToString(_)
NatToString(n) ==
    IF n < 10 THEN <<Digits[n + 1]>>
    ELSE NatToString(n \div 10) \o <<Digits[(n % 10) + 1]>>

\* i64::to_string
I64ToString(n) == IF n < 0 THEN <<"-">> \o NatToString(-n) ELSE NatToString(n)

\* String::from_utf8_lossy: an invalid byte becomes U+FFFD
Utf8Lossy(s) == [i \in 1..Len(s) |-> IF s[i] = "xFF" THEN "uFFFD" ELSE s[i]]

AllDigits(s) == \A i \in 1..Len(s) : s[i] \in DigitSet

RECURSIVE DigitsValue(_)
DigitsValue(s) ==
    IF Len(s) = 0 THEN 0
    ELSE 10 * DigitsValue(SubSeq(s, 1, Len(s) - 1)) + DigitVal(s[Len(s)])

\* str::parse::<i64>: optional sign, at least one digit, digits only, in range
ParseI64(s) ==
    LET signed == Len(s) > 0 /\ s[1] \in {"+", "-"}
        body == IF signed THEN Tail(s) ELSE s
    IN  IF Len(body) = 0 \/ ~AllDigits(body) THEN [ok |-> FALSE, val |-> 0]
        ELSE LET m == DigitsValue(body)
                 v == IF s[1] = "-" THEN -m ELSE m
             IN  IF InI64(v) THEN [ok |-> TRUE, val |-> v]
                 ELSE [ok |-> FALSE, val |-> 0]

\* f64 values are restricted to multiples of one half and carried as a
\* number of halves; f64::to_string prints "3", "3.5", "-0.5"
F64ToString(h) ==
    IF h % 2 = 0 THEN (IF h < 0 THEN <<"-">> \o NatToString((-h) \div 2)
                       ELSE NatToString(h \div 2))
    ELSE (IF h < 0 THEN <<"-">> ELSE <<>>)
         \o NatToString((IF h < 0 THEN -h ELSE h) \div 2) \o <<".", "5">>

\* str::parse::<f64> on the texts of the model: optional sign, digits,
\* optional fraction ".0" or ".5"
ParseF64(s) ==
    LET signed == Len(s) > 0 /\ s[1] \in {"+", "-"}
        body == IF signed THEN Tail(s) ELSE s
        dot == {i \in 1..Len(body) : body[i] = "."}
        ip == IF dot = {} THEN body
              ELSE SubSeq(body, 1, (CHOOSE i \in dot : TRUE) - 1)
        fp == IF dot = {} THEN <<>>
              ELSE SubSeq(body, (CHOOSE i \in dot : TRUE) + 1, Len(body))
    IN  IF Cardinality(dot) > 1 \/ Len(ip) = 0 \/ ~AllDigits(ip)
           \/ fp \notin {<<>>, <<"0">>, <<"5">>}
        THEN [ok |-> FALSE, val |-> 0]
        ELSE LET m == 2 * DigitsValue(ip) + (IF fp = <<"5">> THEN 1 ELSE 0)
             IN  [ok |-> TRUE, val |-> IF s[1] = "-" THEN -m ELSE m]

---------------------------------------------------------------------------
(* src/src/time.rs *)

\* Result of a time helper: kind is "Ok", "InvalidTime" or "Panic"
TimeOk(v) == [kind |-> "Ok", val |-> v]

TimeErr(k) == [kind |-> k, val |-> <<>>]

\* unix_timestamp(): the wall clock, in ticks since the epoch
unix_timestamp(t) == t

\* serialize_duration_as_timestamp that stores the relative duration
serialize_duration_relative(t, duration) ==
    LET total_ms == duration \div TicksPerMs
    IN  IF total_ms > I64Max THEN TimeErr("InvalidTime")
        ELSE TimeOk(I64ToString(total_ms))

\* serialize_duration_as_timestamp(duration): (now + duration).as_millis()
\* converted to i64 and printed in decimal
serialize_duration_as_timestamp(t, duration) ==
    LET total_ms == (unix_timestamp(t) + duration) \div TicksPerMs
    IN  IF total_ms > I64Max THEN TimeErr("InvalidTime")
        ELSE TimeOk(I64ToString(total_ms))

\* parse_timestamp that reads the number as seconds
parse_timestamp_secs(timestamp) ==
    LET p == ParseI64(Utf8Lossy(timestamp))
    IN  IF ~p.ok THEN [kind |-> "InvalidTime", val |-> 0]
        ELSE IF p.val < 0 THEN [kind |-> "Panic", val |-> 0]
        ELSE [kind |-> "Ok", val |-> p.val * MsPerSec * TicksPerMs]

\* parse_timestamp(timestamp): decimal i64 -> u64 (expect) -> Duration
parse_timestamp(timestamp) ==
    LET p == ParseI64(Utf8Lossy(timestamp))
    IN  IF ~p.ok THEN [kind |-> "InvalidTime", val |-> 0]
        ELSE IF p.val < 0 THEN [kind |-> "Panic", val |-> 0]
        ELSE [kind |-> "Ok", val |-> p.val * TicksPerMs]

\* Duration::saturating_sub
SaturatingSub(a, b) == IF a > b THEN a - b ELSE 0

---------------------------------------------------------------------------
(* src/src/database.rs: physical layout *)

Keys == {"k1"}

TTL_KEY_PREFIX == "T:"

TYPE_KEY_PREFIX == "t:"

DATA_KEY_PREFIX == "d:"

TYPE_STRING == <<"S">>

TYPE_HASH == <<"H">>

prepend_key(key, prefix) == <<prefix, key>>

PhysKeys == {prepend_key(k, p) : k \in Keys,
             p \in {TTL_KEY_PREFIX, TYPE_KEY_PREFIX, DATA_KEY_PREFIX}}

\* Result<_, DatabaseError> of a storage operation.  kind is "Ok" or the
\* error variant ("WrongType", "ParseInt", "ParseFloat", "Serde",
\* "InvalidTime"), or "Panic" when the call unwinds.  num carries an i64
\* (or an f64 in halves, or a Duration in ticks), bytes an Option<Vec<u8>>.
RetUnit == [kind |-> "Ok", num |-> 0, bytes |-> None]

RetNum(n) == [kind |-> "Ok", num |-> n, bytes |-> None]

RetBytes(o) == [kind |-> "Ok", num |-> 0, bytes |-> o]

RetErr(k) == [kind |-> k, num |-> 0, bytes |-> None]

\* u8::eq_ignore_ascii_case on type tags
AsciiUpper(c) == IF c = "s" THEN "S" ELSE IF c = "h" THEN "H" ELSE c

eq_ignore_ascii_case(a, b) ==
    /\ Len(a) = Len(b)
    /\ \A i \in 1..Len(a) : AsciiUpper(a[i]) = AsciiUpper(b[i])

\* validate_typed_value that accepts every tag
validate_typed_value_any(type_value, expected_type_id) == RetUnit

\* Database::validate_typed_value
validate_typed_value(type_value, expected_type_id) ==
    IF type_value = None THEN RetUnit
    ELSE IF ~eq_ignore_ascii_case(Unwrap(type_value), expected_type_id)
         THEN RetErr("WrongType")
         ELSE RetUnit

\* Database::get_triple / get_triple_for_update
get_triple(d, key1, key2, key3) == <<d[key1], d[key2], d[key3]>>

\* get_typed_value that checks the type tag before the TTL record
get_typed_value_validate_first(d, t, key, type_id) ==
    LET triple == get_triple(d, prepend_key(key, TYPE_KEY_PREFIX),
                             prepend_key(key, DATA_KEY_PREFIX),
                             prepend_key(key, TTL_KEY_PREFIX))
        parsed == parse_timestamp(Unwrap(triple[3]))
        validated == validate_typed_value(triple[1], type_id)
    IN  IF validated.kind # "Ok" THEN validated
        ELSE IF IsSome(triple[3]) /\ parsed.kind # "Ok" THEN RetErr(parsed.kind)
        ELSE IF IsSome(triple[3])
                /\ SaturatingSub(parsed.val, unix_timestamp(t)) = 0
             THEN RetBytes(None)
        ELSE RetBytes(triple[2])

\* Database::get_typed_value and get_typed_value_for_update: the same
\* computation, outside and inside a transaction
get_typed_value(d, t, key, type_id) ==
    LET type_key == prepend_key(key, TYPE_KEY_PREFIX)
        data_key == prepend_key(key, DATA_KEY_PREFIX)
        ttl_key == prepend_key(key, TTL_KEY_PREFIX)
        triple == get_triple(d, type_key, data_key, ttl_key)
        type_value == triple[1]
        data_value == triple[2]
        ttl_value == triple[3]
        parsed == parse_timestamp(Unwrap(ttl_value))
        validated == validate_typed_value(type_value, type_id)
    IN  IF IsSome(ttl_value) /\ parsed.kind # "Ok" THEN RetErr(parsed.kind)
        ELSE IF IsSome(ttl_value)
                /\ SaturatingSub(parsed.val, unix_timestamp(t)) = 0
             THEN RetBytes(None)
        ELSE IF validated.kind # "Ok" THEN validated
        ELSE RetBytes(data_value)

\* put_typed_value_txn that leaves the TTL record alone
put_typed_value_txn_keep_ttl(d, key, value, type_id) ==
    [d EXCEPT ![prepend_key(key, TYPE_KEY_PREFIX)] = Some(type_id),
              ![prepend_key(key, DATA_KEY_PREFIX)] = Some(value)]

\* Database::put_typed_value_txn: the three writes of the transaction
put_typed_value_txn(d, key, value, type_id) ==
    [d EXCEPT ![prepend_key(key, TYPE_KEY_PREFIX)] = Some(type_id),
              ![prepend_key(key, DATA_KEY_PREFIX)] = Some(value),
              ![prepend_key(key, TTL_KEY_PREFIX)] = None]

\* Database::delete_typed_value
delete_typed_value(d, key) ==
    [d EXCEPT ![prepend_key(key, TYPE_KEY_PREFIX)] = None,
              ![prepend_key(key, DATA_KEY_PREFIX)] = None,
              ![prepend_key(key, TTL_KEY_PREFIX)] = None]

\* Database::exists (the inherent method, a bool)
db_exists(d, key) == d[prepend_key(key, TYPE_KEY_PREFIX)] # None

---------------------------------------------------------------------------
(* Hash payload: serde_json text of a HashMap<String, String> *)

Quote == "\""

EmptyDict == [x \in {} |-> <<>>]

\* HashMap::insert
DictInsert(dict, f, v) ==
    [x \in (DOMAIN dict) \cup {f} |-> IF x = f THEN v ELSE dict[x]]

\* the iteration orders a HashMap with this key set can have
IterOrders(dict) ==
    LET n == Cardinality(DOMAIN dict)
    IN  {o \in [1..n -> DOMAIN dict] : \A f \in DOMAIN dict : \E i \in 1..n : o[i] = f}

RECURSIVE JsonMembers(_, _, _)
JsonMembers(dict, order, i) ==
    IF i > Len(order) THEN <<>>
    ELSE (IF i > 1 THEN <<",">> ELSE <<>>)
         \o <<Quote>> \o order[i] \o <<Quote, ":", Quote>> \o dict[order[i]]
         \o <<Quote>> \o JsonMembers(dict, order, i + 1)

\* serde_json::to_string(&dict), the members in iteration order
to_json(dict, order) == <<"{">> \o JsonMembers(dict, order, 1) \o <<"}">>

JsonFail == [ok |-> FALSE, val |-> <<>>, rest |-> <<>>]

\* one JSON string literal at the head of s
JsonString(s) ==
    LET closing == {i \in 2..Len(s) : s[i] = Quote}
        j == CHOOSE i \in closing : \A i2 \in closing : i <= i2
    IN  IF Len(s) < 2 \/ s[1] # Quote \/ closing = {} THEN JsonFail
        ELSE [ok |-> TRUE, val |-> SubSeq(s, 2, j - 1),
              rest |-> SubSeq(s, j + 1, Len(s))]

RECURSIVE JsonParseMembers(_, _)
JsonParseMembers(s, dict) ==
    LET k == JsonString(s)
        v == JsonString(Tail(k.rest))
        dict2 == DictInsert(dict, k.val, v.val)
    IN  IF ~k.ok \/ Len(k.rest) = 0 THEN [ok |-> FALSE, dict |-> EmptyDict]
        ELSE IF k.rest[1] # ":" \/ ~v.ok THEN [ok |-> FALSE, dict |-> EmptyDict]
        ELSE IF v.rest = <<>> THEN [ok |-> TRUE, dict |-> dict2]
        ELSE IF v.rest[1] = "," THEN JsonParseMembers(Tail(v.rest), dict2)
        ELSE [ok |-> FALSE, dict |-> EmptyDict]

\* serde_json::from_str::<HashMap<String, String>>
from_json(s) ==
    IF Len(s) < 2 THEN [ok |-> FALSE, dict |-> EmptyDict]
    ELSE IF s[1] # "{" \/ s[Len(s)] # "}" THEN [ok |-> FALSE, dict |-> EmptyDict]
    ELSE IF Len(s) = 2 THEN [ok |-> TRUE, dict |-> EmptyDict]
    ELSE JsonParseMembers(SubSeq(s, 2, Len(s) - 1), EmptyDict)

---------------------------------------------------------------------------
(* src/src/database.rs: impl DatabaseOperations for Database.  Each        *)
(* operation maps the store d at time t to the store it commits and the    *)
(* value it returns; an operation that returns early or fails drops its    *)
(* transaction, and the store is the one it started from.                  *)

Res(d, ret) == [db |-> d, ret |-> ret]

get_string(d, t, key) == Res(d, get_typed_value(d, t, key, TYPE_STRING))

get_hash_field(d, t, key, field) ==
    LET hash == get_typed_value(d, t, key, TYPE_HASH)
        parsed == from_json(Utf8Lossy(Unwrap(hash.bytes)))
        subkey == Utf8Lossy(field)
    IN  IF hash.kind # "Ok" THEN Res(d, hash)
        ELSE IF hash.bytes = None THEN Res(d, RetBytes(None))
        ELSE IF ~parsed.ok THEN Res(d, RetErr("Serde"))
        ELSE IF subkey \notin DOMAIN parsed.dict THEN Res(d, RetBytes(None))
        ELSE Res(d, RetBytes(Some(parsed.dict[subkey])))

\* put_string that writes the payload and not the type tag
put_string_no_tag(d, key, value) ==
    Res([d EXCEPT ![prepend_key(key, DATA_KEY_PREFIX)] = Some(value),
                  ![prepend_key(key, TTL_KEY_PREFIX)] = None], RetUnit)

put_string(d, key, value) ==
    Res(put_typed_value_txn(d, key, value, TYPE_STRING), RetUnit)

RECURSIVE InsertFields(_, _, _)
InsertFields(dict, fields, i) ==
    IF i > Len(fields) THEN dict
    ELSE InsertFields(DictInsert(dict, Utf8Lossy(fields[i][1]),
                                 Utf8Lossy(fields[i][2])), fields, i + 1)

\* the HashMap after the insert loop of put_hash_fields; existing is the
\* Option<Vec<u8>> read under the lock
HashAfterInsert(existing, fields) ==
    LET parsed == IF existing = None THEN [ok |-> TRUE, dict |-> EmptyDict]
                  ELSE from_json(Utf8Lossy(Unwrap(existing)))
    IN  [ok |-> parsed.ok, dict |-> InsertFields(parsed.dict, fields, 1)]

\* put_hash_fields that counts the fields it created
put_hash_fields_count_new(d, t, key, fields, order) ==
    LET existing == get_typed_value(d, t, key, TYPE_HASH)
        before == HashAfterInsert(existing.bytes, <<>>)
        after == HashAfterInsert(existing.bytes, fields)
        value == to_json(after.dict, order)
    IN  IF existing.kind # "Ok" THEN Res(d, existing)
        ELSE IF ~after.ok THEN Res(d, RetErr("Serde"))
        ELSE Res(put_typed_value_txn(d, key, value, TYPE_HASH),
                 RetNum(Cardinality((DOMAIN after.dict) \ (DOMAIN before.dict))))

\* order: the iteration order of the HashMap when it is serialised
put_hash_fields(d, t, key, fields, order) ==
    LET existing == get_typed_value(d, t, key, TYPE_HASH)
        after == HashAfterInsert(existing.bytes, fields)
        n_fields == Len(fields)
        value == to_json(after.dict, order)
    IN  IF existing.kind # "Ok" THEN Res(d, existing)
        ELSE IF ~after.ok THEN Res(d, RetErr("Serde"))
        ELSE Res(put_typed_value_txn(d, key, value, TYPE_HASH), RetNum(n_fields))

\* put_expiry that writes the timestamp under the data key
put_expiry_data_key(d, t, key, expires_in) ==
    LET data_key == prepend_key(key, DATA_KEY_PREFIX)
        ttl_ms == serialize_duration_as_timestamp(t, expires_in)
    IN  IF ttl_ms.kind # "Ok" THEN Res(d, RetErr(ttl_ms.kind))
        ELSE Res([d EXCEPT ![data_key] = Some(ttl_ms.val)], RetUnit)

put_expiry(d, t, key, expires_in) ==
    LET ttl_key == prepend_key(key, TTL_KEY_PREFIX)
        ttl_ms == serialize_duration_as_timestamp(t, expires_in)
    IN  IF ttl_ms.kind # "Ok" THEN Res(d, RetErr(ttl_ms.kind))
        ELSE Res([d EXCEPT ![ttl_key] = Some(ttl_ms.val)], RetUnit)

\* get_expiry that reads the data record in place of the TTL record
get_expiry_data_key(d, t, key) ==
    LET ttl == d[prepend_key(key, DATA_KEY_PREFIX)]
        parsed == parse_timestamp(Unwrap(ttl))
    IN  IF ttl = None THEN Res(d, RetBytes(None))
        ELSE IF parsed.kind # "Ok" THEN Res(d, RetErr(parsed.kind))
        ELSE Res(d, RetBytes(Some(SaturatingSub(parsed.val, unix_timestamp(t)))))

\* Database::get_expiry: the remaining time, saturating at zero; bytes
\* carries the Option<Duration>, in ticks
get_expiry(d, t, key) ==
    LET ttl_key == prepend_key(key, TTL_KEY_PREFIX)
        ttl == d[ttl_key]
        parsed == parse_timestamp(Unwrap(ttl))
    IN  IF ttl = None THEN Res(d, RetBytes(None))
        ELSE IF parsed.kind # "Ok" THEN Res(d, RetErr(parsed.kind))
        ELSE Res(d, RetBytes(Some(SaturatingSub(parsed.val, unix_timestamp(t)))))

delete_expiry(d, key) ==
    LET ttl_key == prepend_key(key, TTL_KEY_PREFIX)
        existing_ttl == d[ttl_key]
    IN  IF existing_ttl = None THEN Res(d, RetNum(0))
        ELSE Res([d EXCEPT ![ttl_key] = None], RetNum(1))

\* DatabaseOperations::exists
exists(d, key) == Res(d, RetNum(IF db_exists(d, key) THEN 1 ELSE 0))

\* i64 `+`: with overflow checks (debug profile) an overflow panics, without
\* them (release profile) it wraps
AddI64(a, b, checks) ==
    IF InI64(a + b) THEN [panic |-> FALSE, val |-> a + b]
    ELSE IF checks THEN [panic |-> TRUE, val |-> 0]
    ELSE [panic |-> FALSE, val |-> WrapI64(a + b)]

\* increment_by that takes an unparsable payload for 0
increment_by_lenient(d, t, key, amount, checks) ==
    LET got == get_typed_value(d, t, key, TYPE_STRING)
        current_value == IF got.bytes = None THEN <<"0">> ELSE Unwrap(got.bytes)
        parsed == ParseI64(Utf8Lossy(current_value))
        next_value == AddI64(IF parsed.ok THEN parsed.val ELSE 0, amount, checks)
    IN  IF got.kind # "Ok" THEN Res(d, got)
        ELSE IF next_value.panic THEN Res(d, RetErr("Panic"))
        ELSE Res(put_typed_value_txn(d, key, I64ToString(next_value.val),
                                     TYPE_STRING),
                 RetNum(next_value.val))

increment_by(d, t, key, amount, checks) ==
    LET got == get_typed_value(d, t, key, TYPE_STRING)
        current_value == IF got.bytes = None THEN <<"0">> ELSE Unwrap(got.bytes)
        parsed == ParseI64(Utf8Lossy(current_value))
        next_value == AddI64(parsed.val, amount, checks)
    IN  IF got.kind # "Ok" THEN Res(d, got)
        ELSE IF ~parsed.ok THEN Res(d, RetErr("ParseInt"))
        ELSE IF next_value.panic THEN Res(d, RetErr("Panic"))
        ELSE Res(put_typed_value_txn(d, key, I64ToString(next_value.val),
                                     TYPE_STRING),
                 RetNum(next_value.val))

\* amount and the result are f64 values in halves
increment_by_float(d, t, key, amount) ==
    LET got == get_typed_value(d, t, key, TYPE_STRING)
        current_value == IF got.bytes = None THEN <<"0">> ELSE Unwrap(got.bytes)
        parsed == ParseF64(Utf8Lossy(current_value))
        next_value == parsed.val + amount
    IN  IF got.kind # "Ok" THEN Res(d, got)
        ELSE IF ~parsed.ok THEN Res(d, RetErr("ParseFloat"))
        ELSE Res(put_typed_value_txn(d, key, F64ToString(next_value),
                                     TYPE_STRING),
                 RetNum(next_value))

\* DatabaseOperations::delete
delete(d, key) ==
    IF ~db_exists(d, key) THEN Res(d, RetNum(0))
    ELSE Res(delete_typed_value(d, key), RetNum(1))

---------------------------------------------------------------------------
(* src/src/commands/strings.rs: the integer-counter commands.  args is the *)
(* argument vector (args[1] is the command name, Rust's args[0]).  A       *)
(* handler maps the store to the store it leaves, its Result (Ok or the    *)
(* error it returns to the dispatcher) and the reply it wrote.             *)

NoReply == [kind |-> "none", num |-> 0, text |-> ""]

\* Connection::write_integer
write_integer(n) == [kind |-> "integer", num |-> n, text |-> ""]

\* Connection::write_error
write_error(e) == [kind |-> "error", num |-> 0, text |-> e]

ClientError_ArgCount == "ERR wrong number of arguments for command"

ClientError_WrongType ==
    "WRONGTYPE Operation against a key holding the wrong kind of value"

CmdRes(d, ret, reply) == [db |-> d, ret |-> ret, reply |-> reply]

\* the match on the result of db.increment_by shared by the four handlers
IncrementReply(r) ==
    IF r.ret.kind = "Ok" THEN CmdRes(r.db, RetUnit, write_integer(r.ret.num))
    ELSE IF r.ret.kind = "WrongType"
         THEN CmdRes(r.db, RetUnit, write_error(ClientError_WrongType))
    ELSE CmdRes(r.db, r.ret, NoReply)

incr(d, t, args, checks) ==
    IF Len(args) # 2 THEN CmdRes(d, RetUnit, write_error(ClientError_ArgCount))
    ELSE IncrementReply(increment_by(d, t, args[2], 1, checks))

decr(d, t, args, checks) ==
    IF Len(args) # 2 THEN CmdRes(d, RetUnit, write_error(ClientError_ArgCount))
    ELSE IncrementReply(increment_by(d, t, args[2], -1, checks))

incrby(d, t, args, checks) ==
    LET amount == ParseI64(Utf8Lossy(args[3]))
    IN  IF Len(args) # 3
        THEN CmdRes(d, RetUnit, write_error(ClientError_ArgCount))
        ELSE IF ~amount.ok THEN CmdRes(d, RetErr("ParseInt"), NoReply)
        ELSE IncrementReply(increment_by(d, t, args[2], amount.val, checks))

\* i64 unary `-`: overflows only on i64::MIN
NegI64(a, checks) ==
    IF InI64(-a) THEN [panic |-> FALSE, val |-> -a]
    ELSE IF checks THEN [panic |-> TRUE, val |-> 0]
    ELSE [panic |-> FALSE, val |-> WrapI64(-a)]

\* decrby that passes the amount without negating it
decrby_not_negated(d, t, args, checks) ==
    LET amount == ParseI64(Utf8Lossy(args[3]))
    IN  IF Len(args) # 3
        THEN CmdRes(d, RetUnit, write_error(ClientError_ArgCount))
        ELSE IF ~amount.ok THEN CmdRes(d, RetErr("ParseInt"), NoReply)
        ELSE IncrementReply(increment_by(d, t, args[2], amount.val, checks))

decrby(d, t, args, checks) ==
    LET amount == ParseI64(Utf8Lossy(args[3]))
        negated == NegI64(amount.val, checks)
    IN  IF Len(args) # 3
        THEN CmdRes(d, RetUnit, write_error(ClientError_ArgCount))
        ELSE IF ~amount.ok THEN CmdRes(d, RetErr("ParseInt"), NoReply)
        ELSE IF negated.panic THEN CmdRes(d, RetErr("Panic"), NoReply)
        ELSE IncrementReply(increment_by(d, t, args[2], negated.val, checks))

---------------------------------------------------------------------------
(* src/src/commands/generic.rs and SETEX of strings.rs: the expiry         *)
(* commands.  Seconds are MsPerSec milliseconds; u64 is scaled like i64.   *)

TicksPerSec == MsPerSec * TicksPerMs

U64Max == 2^I64Bits - 1

\* str::parse::<u64>: optional "+", at least one digit, digits only, in range
ParseU64(s) ==
    LET body == IF Len(s) > 0 /\ s[1] = "+" THEN Tail(s) ELSE s
    IN  IF Len(body) = 0 \/ ~AllDigits(body) THEN [ok |-> FALSE, val |-> 0]
        ELSE IF DigitsValue(body) > U64Max THEN [ok |-> FALSE, val |-> 0]
        ELSE [ok |-> TRUE, val |-> DigitsValue(body)]

\* str::to_uppercase on the letters of the option words
ToUpperChar(c) ==
    IF c = "n" THEN "N" ELSE IF c = "x" THEN "X" ELSE IF c = "g" THEN "G"
    ELSE IF c = "l" THEN "L" ELSE IF c = "t" THEN "T" ELSE c

to_uppercase(s) == [i \in 1..Len(s) |-> ToUpperChar(s[i])]

\* Connection::write_string
write_string(msg) == [kind |-> "string", num |-> 0, text |-> msg]

ClientError_ExpireNxOptions ==
    "NX and XX, GT or LT options at the same time are not compatible"

\* the match on the result of db.put_expiry: the closure update_expiry of
\* expire, and the tail of pexpire, expireat and pexpireat
update_expiry(d, t, key, expires_in) ==
    LET r == put_expiry(d, t, key, expires_in)
    IN  IF r.ret.kind = "Ok" THEN CmdRes(r.db, RetUnit, write_integer(1))
        ELSE CmdRes(r.db, r.ret, write_integer(0))

\* expire that looks at no option
expire_no_options(d, t, args) ==
    LET secs == ParseU64(Utf8Lossy(args[3]))
    IN  IF Len(args) < 3
        THEN CmdRes(d, RetUnit, write_error(ClientError_ArgCount))
        ELSE IF ~secs.ok THEN CmdRes(d, RetErr("ParseInt"), NoReply)
        ELSE update_expiry(d, t, args[2], secs.val * TicksPerSec)

expire(d, t, args) ==
    LET key == args[2]
        secs == ParseU64(Utf8Lossy(args[3]))
        expires_in == secs.val * TicksPerSec
        options == {to_uppercase(Utf8Lossy(args[i])) : i \in 4..Len(args)}
        nx == <<"N", "X">> \in options
        xx == <<"X", "X">> \in options
        gt == <<"G", "T">> \in options
        lt == <<"L", "T">> \in options
        got == get_expiry(d, t, key).ret
        ttl == got.bytes
    IN  IF Len(args) < 3
        THEN CmdRes(d, RetUnit, write_error(ClientError_ArgCount))
        ELSE IF ~secs.ok THEN CmdRes(d, RetErr("ParseInt"), NoReply)
        ELSE IF nx /\ (xx \/ gt \/ lt)
        THEN CmdRes(d, RetUnit, write_error(ClientError_ExpireNxOptions))
        ELSE IF ~(nx \/ gt \/ lt \/ xx) THEN update_expiry(d, t, key, expires_in)
        ELSE IF got.kind # "Ok" THEN CmdRes(d, got, NoReply)
        ELSE IF nx
        THEN (IF IsSome(ttl) THEN CmdRes(d, RetUnit, write_integer(0))
              ELSE update_expiry(d, t, key, expires_in))
        ELSE IF gt
        THEN (IF IsSome(ttl) /\ expires_in < Unwrap(ttl)
              THEN CmdRes(d, RetUnit, write_integer(0))
              ELSE IF ttl = None /\ xx THEN CmdRes(d, RetUnit, write_integer(0))
              ELSE update_expiry(d, t, key, expires_in))
        ELSE IF lt
        THEN (IF IsSome(ttl) /\ expires_in > Unwrap(ttl)
              THEN CmdRes(d, RetUnit, write_integer(0))
              ELSE IF ttl = None /\ xx THEN CmdRes(d, RetUnit, write_integer(0))
              ELSE update_expiry(d, t, key, expires_in))
        ELSE (IF IsSome(ttl) THEN update_expiry(d, t, key, expires_in)
              ELSE CmdRes(d, RetUnit, write_integer(0)))

\* pexpire (unit = 1 ms), expireat and pexpireat (absolute = TRUE): parse the
\* number, turn it into a relative duration, put_expiry; args[4..] unread
ExpireVariant(d, t, args, unit, absolute) ==
    LET n == ParseU64(Utf8Lossy(args[3]))
        expires_in == IF absolute
                      THEN SaturatingSub(n.val * unit, unix_timestamp(t))
                      ELSE n.val * unit
    IN  IF Len(args) < 3
        THEN CmdRes(d, RetUnit, write_error(ClientError_ArgCount))
        ELSE IF ~n.ok THEN CmdRes(d, RetErr("ParseInt"), NoReply)
        ELSE update_expiry(d, t, args[2], expires_in)

pexpire(d, t, args) == ExpireVariant(d, t, args, TicksPerMs, FALSE)

\* expireat that takes its number as a time from now
expireat_relative(d, t, args) == ExpireVariant(d, t, args, TicksPerSec, FALSE)

expireat(d, t, args) == ExpireVariant(d, t, args, TicksPerSec, TRUE)

pexpireat(d, t, args) == ExpireVariant(d, t, args, TicksPerMs, TRUE)

\* ttl (unit = 1 s) and pttl (unit = 1 ms)
TtlReply(d, t, args, unit) ==
    LET key == args[2]
        got == get_expiry(d, t, key).ret
        remaining == Unwrap(got.bytes) \div unit
    IN  IF Len(args) # 2
        THEN CmdRes(d, RetUnit, write_error(ClientError_ArgCount))
        ELSE IF got.kind # "Ok" THEN CmdRes(d, got, NoReply)
        ELSE IF got.bytes = None
        THEN (IF exists(d, key).ret.num = 0
              THEN CmdRes(d, RetUnit, write_integer(-2))
              ELSE CmdRes(d, RetUnit, write_integer(-1)))
        ELSE IF remaining > I64Max THEN CmdRes(d, RetErr("TryFromInt"), NoReply)
        ELSE CmdRes(d, RetUnit, write_integer(remaining))

ttl(d, t, args) == TtlReply(d, t, args, TicksPerSec)

pttl(d, t, args) == TtlReply(d, t, args, TicksPerMs)

\* persist: the reply follows Ok or Err of delete_expiry, not its count
persist(d, args) ==
    LET r == delete_expiry(d, args[2])
    IN  IF Len(args) # 2
        THEN CmdRes(d, RetUnit, write_error(ClientError_ArgCount))
        ELSE IF r.ret.kind = "Ok" THEN CmdRes(r.db, RetUnit, write_integer(1))
        ELSE CmdRes(r.db, r.ret, write_integer(0))

\* expiretime (unit = 1 s) and pexpiretime (unit = 1 ms): the remaining
\* time of get_expiry plus the clock
ExpireTimeReply(d, t, args, unit) ==
    LET key == args[2]
        got == get_expiry(d, t, key).ret
        at == (Unwrap(got.bytes) + unix_timestamp(t)) \div unit
    IN  IF Len(args) # 2
        THEN CmdRes(d, RetUnit, write_error(ClientError_ArgCount))
        ELSE IF got.kind # "Ok" THEN CmdRes(d, got, NoReply)
        ELSE IF got.bytes = None
        THEN (IF exists(d, key).ret.num = 0
              THEN CmdRes(d, RetUnit, write_integer(-2))
              ELSE CmdRes(d, RetUnit, write_integer(-1)))
        ELSE IF at > I64Max THEN CmdRes(d, RetErr("TryFromInt"), NoReply)
        ELSE CmdRes(d, RetUnit, write_integer(at))

expiretime(d, t, args) == ExpireTimeReply(d, t, args, TicksPerSec)

pexpiretime(d, t, args) == ExpireTimeReply(d, t, args, TicksPerMs)

set(d, args) ==
    IF Len(args) < 3 THEN CmdRes(d, RetUnit, write_error(ClientError_ArgCount))
    ELSE CmdRes(put_string(d, args[2], args[3]).db, RetUnit, write_string("OK"))

\* setex: put_string and put_expiry, one transaction each
setex(d, t, args) ==
    LET key == args[2]
        secs == ParseU64(Utf8Lossy(args[3]))
        put == put_string(d, key, args[4])
        exp == put_expiry(put.db, t, key, secs.val * TicksPerSec)
    IN  IF Len(args) # 4
        THEN CmdRes(d, RetUnit, write_error(ClientError_ArgCount))
        ELSE IF ~secs.ok THEN CmdRes(d, RetErr("ParseInt"), NoReply)
        ELSE IF exp.ret.kind # "Ok" THEN CmdRes(exp.db, exp.ret, NoReply)
        ELSE CmdRes(exp.db, RetUnit, write_string("OK"))

\* exists (the command): the sum of db.exists over args[2..]
RECURSIVE ExistsCount(_, _, _)
ExistsCount(d, args, i) ==
    IF i > Len(args) THEN 0
    ELSE exists(d, args[i]).ret.num + ExistsCount(d, args, i + 1)

exists_cmd(d, args) ==
    IF Len(args) < 2 THEN CmdRes(d, RetUnit, write_error(ClientError_ArgCount))
    ELSE CmdRes(d, RetUnit, write_integer(ExistsCount(d, args, 2)))

\* the loop of del over args[i..]: the store after the deletes and their sum
RECURSIVE DeleteEach(_, _, _, _)
DeleteEach(d, args, i, n_deleted) ==
    IF i > Len(args) THEN [db |-> d, n_deleted |-> n_deleted]
    ELSE LET r == delete(d, args[i])
         IN  DeleteEach(r.db, args, i + 1, n_deleted + r.ret.num)

del(d, args) ==
    LET r == DeleteEach(d, args, 2, 0)
    IN  IF Len(args) < 2
        THEN CmdRes(d, RetUnit, write_error(ClientError_ArgCount))
        ELSE CmdRes(r.db, RetUnit, write_integer(r.n_deleted))

unlink(d, args) == del(d, args)

---------------------------------------------------------------------------
(* src/src/commands/strings.rs: GETRANGE and SUBSTR *)

\* Connection::write_bulk
write_bulk(msg) == [kind |-> "bulk", num |-> 0, text |-> "", bulk |-> msg]

\* adjust_index(end_index, x): the conversion of a negative result to usize
\* unwinds
adjust_index(end_index, x) ==
    LET iend_index == end_index
    IN  IF x > iend_index THEN [kind |-> "Ok", val |-> end_index]
        ELSE IF x >= 0 THEN [kind |-> "Ok", val |-> x]
        ELSE IF iend_index + x + 1 < 0 THEN [kind |-> "Panic", val |-> 0]
        ELSE [kind |-> "Ok", val |-> iend_index + x + 1]

adjust_indices(end_index, start, end) ==
    <<adjust_index(end_index, start), adjust_index(end_index, end)>>

\* &val[start..=end], positions counted from 0
Slice(val, start, end) == SubSeq(val, start + 1, end + 1)

substr(d, t, args) ==
    LET start == ParseI64(Utf8Lossy(args[3]))
        end == ParseI64(Utf8Lossy(args[4]))
        value == get_string(d, t, args[2]).ret
        val == Unwrap(value.bytes)
        adjusted == adjust_indices(Len(val) - 1, start.val, end.val)
    IN  IF Len(args) # 4
        THEN CmdRes(d, RetUnit, write_error(ClientError_ArgCount))
        ELSE IF ~start.ok \/ ~end.ok THEN CmdRes(d, RetErr("ParseInt"), NoReply)
        ELSE IF value.kind = "WrongType"
             THEN CmdRes(d, RetUnit, write_error(ClientError_WrongType))
        ELSE IF value.kind # "Ok" THEN CmdRes(d, value, NoReply)
        ELSE IF value.bytes = None THEN CmdRes(d, RetUnit, write_bulk(<<>>))
        ELSE IF Len(val) = 0 THEN CmdRes(d, RetUnit, write_bulk(<<>>))
        ELSE IF adjusted[1].kind # "Ok" \/ adjusted[2].kind # "Ok"
             THEN CmdRes(d, RetErr("Panic"), NoReply)
        ELSE IF adjusted[1].val < adjusted[2].val
             THEN CmdRes(d, RetUnit,
                         write_bulk(Slice(val, adjusted[1].val, adjusted[2].val)))
        ELSE CmdRes(d, RetUnit, write_bulk(<<>>))

getrange(d, t, args) == substr(d, t, args)

---------------------------------------------------------------------------
(* src/src/commands/hashes.rs *)

\* args[2..] taken two at a time: the (field, value) pairs of HSET
key_value_pairs(args) ==
    [i \in 1..((Len(args) - 2) \div 2) |-> <<args[2 * i + 1], args[2 * i + 2]>>]

hset(d, t, args, order) ==
    LET r == put_hash_fields(d, t, args[2], key_value_pairs(args), order)
    IN  IF Len(args) < 4 \/ Len(args) % 2 # 0
        THEN CmdRes(d, RetUnit, write_error(ClientError_ArgCount))
        ELSE IF r.ret.kind = "Ok"
             THEN CmdRes(r.db, RetUnit, write_integer(r.ret.num))
        ELSE IF r.ret.kind = "WrongType"
             THEN CmdRes(r.db, RetUnit, write_error(ClientError_WrongType))
        ELSE CmdRes(r.db, r.ret, NoReply)

---------------------------------------------------------------------------
(* What the client receives.  The caller of the handlers is not part of    *)
(* the sources at hand; the specification's error table gives the reply    *)
(* for an error a handler returns without having written one.              *)

ClientError_WrongFormat == "ERR value is not an integer or out of range"

ClientError_Internal == "ERR internal error"

\* the frame the client reads after a handler returned ret having written reply
on_command(ret, reply) ==
    IF reply # NoReply THEN reply
    ELSE IF ret.kind # "Ok" THEN write_error(ClientError_Internal)
    ELSE NoReply

---------------------------------------------------------------------------
(* The state machine: one connection calling the storage operations.       *)
(*   db               the ordered store, physical key -> Option<bytes>     *)
(*   now              the wall clock, in ticks                             *)
(*   last             the call that has just returned: operation,          *)
(*                    arguments, result, and the key's triple before it;   *)
(*                    cleared when time passes                             *)
(*   scen             history of the key last written by put_string:       *)
(*                    whether put_expiry followed, and the instant         *)
(*                    t0 + delta that call asked for                       *)
(* An arithmetic overflow panics or wraps as the build profile has it      *)
(* (overflow checks on or off); each call takes either outcome.            *)

StrValues ==
    {<<"1", "xFF">>, <<"+", "1">>, I64ToString(I64Max), I64ToString(I64Min),
     NatToString(I64Max + 1)}

Amounts == {-1, 1, I64Max, I64Min}

FloatAmounts == {-1, 1}

HashFields == {<<"f">>, <<"g">>}

\* argument lists of put_hash_fields: none, one pair, a repeated field, two
\* fields; a value that is not UTF-8
FieldLists ==
    {<<>>,
     <<<<<<"f">>, <<"a">>>>>>,
     <<<<<<"g">>, <<"xFF">>>>>>,
     <<<<<<"f">>, <<"b">>>>, <<<<"f">>, <<"a", "b">>>>>>,
     <<<<<<"f">>, <<"b">>>>, <<<<"g">>, <<"a">>>>>>}

\* a Duration too long for now + duration to fit an i64 of milliseconds
HugeDuration == (I64Max + 1) * TicksPerMs

Durations == (0..MaxDelta) \cup {HugeDuration}

\* the three records of a logical key: <<t:K, d:K, T:K>>
Triple(d, key) ==
    <<d[prepend_key(key, TYPE_KEY_PREFIX)], d[prepend_key(key, DATA_KEY_PREFIX)],
      d[prepend_key(key, TTL_KEY_PREFIX)]>>

NoCall == [op |-> "none", key |-> "", val |-> <<>>, num |-> 0,
           fields |-> <<>>, ret |-> RetUnit, reply |-> NoReply,
           pre |-> <<None, None, None>>]

\* a storage call: pre is the triple of the key before the call
Call(op, key, val, num, fields, ret) ==
    [op |-> op, key |-> key, val |-> val, num |-> num, fields |-> fields,
     ret |-> ret, reply |-> NoReply, pre |-> Triple(db, key)]

\* a command: val is the text of its numeric argument, num the length of
\* its argument vector
Command(op, key, val, argc, r) ==
    [op |-> op, key |-> key, val |-> val, num |-> argc, fields |-> <<>>,
     ret |-> r.ret, reply |-> r.reply, pre |-> Triple(db, key)]

AmountTexts == {<<"2">>, I64ToString(I64Max), I64ToString(I64Min), <<"x">>}

NoScen == [stage |-> "none", key |-> "", v |-> <<>>, delta |-> 0, deadline |-> 0]

\* scen after a call of op on key that is neither put_string nor put_expiry
ScenOther(key) == IF scen.key = key THEN NoScen ELSE scen

Conns == {"c1", "c2"}

\* a connection that has not sent its command
Idle == [cmd |-> "none", key |-> "", val |-> <<>>, dur |-> 0, pre |-> <<>>,
         stages |-> <<>>, todo |-> <<>>, locks |-> {}, writes |-> <<>>,
         ret |-> RetUnit, reply |-> NoReply,
         num |-> 0, fields |-> <<>>, since |-> 0,
         seen |-> [p \in PhysKeys |-> None]]

\* a connection the server has not accepted: where its task is, the frames
\* that arrived, were read and were answered, the handlers running, and
\* whether the task holds its clone of the shutdown-complete sender
NoTask == [pos |-> "none", is_shutdown |-> FALSE, arrived |-> 0, read |-> 0,
           replied |-> 0, running |-> 0, shutdown_complete |-> FALSE,
           eof |-> "no", spun |-> FALSE, cb |-> "none", result |-> "none"]

\* serve() at its select: the shutdown future not ready, both channels open
NoServer == [phase |-> "running", fired |-> FALSE, notify_shutdown |-> TRUE,
             shutdown_complete_tx |-> TRUE, tasks |-> [c \in Conns |-> NoTask]]

Init ==
    /\ db = [p \in PhysKeys |-> None]
    /\ now = 0
    /\ last = NoCall
    /\ scen = NoScen
    /\ conns = [c \in Conns |-> Idle]
    /\ commits = <<>>
    /\ srv = NoServer

Tick ==
    /\ now < MaxNow
    /\ now' = now + 1
    /\ last' = NoCall
    /\ UNCHANGED <<db, scen, conc>>

GetString ==
    \E k \in Keys :
        LET r == get_string(db, now, k)
        IN  /\ db' = r.db
            /\ last' = Call("get_string", k, <<>>, 0, <<>>, r.ret)
            /\ UNCHANGED <<now, scen, conc>>

GetHashField ==
    \E k \in Keys, f \in HashFields :
        LET r == get_hash_field(db, now, k, f)
        IN  /\ db' = r.db
            /\ last' = Call("get_hash_field", k, f, 0, <<>>, r.ret)
            /\ UNCHANGED <<now, scen, conc>>

Exists ==
    \E k \in Keys :
        LET r == exists(db, k)
        IN  /\ db' = r.db
            /\ last' = Call("exists", k, <<>>, 0, <<>>, r.ret)
            /\ UNCHANGED <<now, scen, conc>>

PutString ==
    \E k \in Keys, v \in StrValues :
        LET r == put_string(db, k, v)
        IN  /\ db' = r.db
            /\ last' = Call("put_string", k, v, 0, <<>>, r.ret)
            /\ scen' = [stage |-> "set", key |-> k, v |-> v, delta |-> 0,
                        deadline |-> 0]
            /\ UNCHANGED <<now, conc>>

PutHashFields ==
    \E k \in Keys, fs \in FieldLists :
        \E o \in IterOrders(HashAfterInsert(
                     get_typed_value(db, now, k, TYPE_HASH).bytes, fs).dict) :
            LET r == put_hash_fields(db, now, k, fs, o)
            IN  /\ db' = r.db
                /\ last' = Call("put_hash_fields", k, <<>>, 0, fs, r.ret)
                /\ scen' = ScenOther(k)
                /\ UNCHANGED <<now, conc>>

PutExpiry ==
    \E k \in Keys, dur \in Durations :
        LET r == put_expiry(db, now, k, dur)
        IN  /\ db' = r.db
            /\ last' = Call("put_expiry", k, <<>>, dur, <<>>, r.ret)
            /\ scen' = IF scen.key = k /\ scen.stage = "set" /\ r.ret.kind = "Ok"
                       THEN [scen EXCEPT !.stage = "set_expire", !.delta = dur,
                                         !.deadline = now + dur]
                       ELSE ScenOther(k)
            /\ UNCHANGED <<now, conc>>

DeleteExpiry ==
    \E k \in Keys :
        LET r == delete_expiry(db, k)
        IN  /\ db' = r.db
            /\ last' = Call("delete_expiry", k, <<>>, 0, <<>>, r.ret)
            /\ scen' = ScenOther(k)
            /\ UNCHANGED <<now, conc>>

IncrementBy ==
    \E k \in Keys, amount \in Amounts, overflow_checks \in BOOLEAN :
        LET r == increment_by(db, now, k, amount, overflow_checks)
        IN  /\ db' = r.db
            /\ last' = Call("increment_by", k, <<>>, amount, <<>>, r.ret)
            /\ scen' = ScenOther(k)
            /\ UNCHANGED <<now, conc>>

\* the f64 values of the model stay within FloatCap halves of zero
FloatInModel(h) == h <= FloatCap /\ -h <= FloatCap

IncrementByFloat ==
    \E k \in Keys, amount \in FloatAmounts :
        LET r == increment_by_float(db, now, k, amount)
        IN  /\ r.ret.kind = "Ok" => FloatInModel(r.ret.num)
            /\ db' = r.db
            /\ last' = Call("increment_by_float", k, <<>>, amount, <<>>, r.ret)
            /\ scen' = ScenOther(k)
            /\ UNCHANGED <<now, conc>>

Delete ==
    \E k \in Keys :
        LET r == delete(db, k)
        IN  /\ db' = r.db
            /\ last' = Call("delete", k, <<>>, 0, <<>>, r.ret)
            /\ scen' = ScenOther(k)
            /\ UNCHANGED <<now, conc>>

Incr ==
    \E k \in Keys, overflow_checks \in BOOLEAN :
      \E args \in {<<"INCR", k>>, <<"INCR", k, <<"1">>>>} :
        LET r == incr(db, now, args, overflow_checks)
        IN  /\ db' = r.db
            /\ last' = Command("INCR", k, <<>>, Len(args), r)
            /\ scen' = ScenOther(k)
            /\ UNCHANGED <<now, conc>>

Decr ==
    \E k \in Keys, overflow_checks \in BOOLEAN :
      \E args \in {<<"DECR", k>>, <<"DECR", k, <<"1">>>>} :
        LET r == decr(db, now, args, overflow_checks)
        IN  /\ db' = r.db
            /\ last' = Command("DECR", k, <<>>, Len(args), r)
            /\ scen' = ScenOther(k)
            /\ UNCHANGED <<now, conc>>

IncrBy ==
    \E k \in Keys, n \in AmountTexts, overflow_checks \in BOOLEAN :
        LET r == incrby(db, now, <<"INCRBY", k, n>>, overflow_checks)
        IN  /\ db' = r.db
            /\ last' = Command("INCRBY", k, n, 3, r)
            /\ scen' = ScenOther(k)
            /\ UNCHANGED <<now, conc>>

DecrBy ==
    \E k \in Keys, n \in AmountTexts, overflow_checks \in BOOLEAN :
        LET r == decrby(db, now, <<"DECRBY", k, n>>, overflow_checks)
        IN  /\ db' = r.db
            /\ last' = Command("DECRBY", k, n, 3, r)
            /\ scen' = ScenOther(k)
            /\ UNCHANGED <<now, conc>>

\* the words of a list of pairs, in order
RECURSIVE Flatten(_)
Flatten(fs) == IF fs = <<>> THEN <<>> ELSE <<fs[1][1], fs[1][2]>> \o Flatten(Tail(fs))

\* the words after the key: the pair lists, and one with a last field that
\* has no value
HsetWords == {Flatten(fs) : fs \in FieldLists} \cup {<<<<"f">>, <<"a">>, <<"g">>>>}

Hset ==
    \E k \in Keys, ws \in HsetWords :
        LET args == <<"HSET", k>> \o ws
        IN  \E o \in IterOrders(HashAfterInsert(
                         get_typed_value(db, now, k, TYPE_HASH).bytes,
                         key_value_pairs(args)).dict) :
                LET r == hset(db, now, args, o)
                IN  /\ db' = r.db
                    /\ last' = [Command("HSET", k, <<>>, Len(args), r)
                                    EXCEPT !.fields = key_value_pairs(args)]
                    /\ scen' = ScenOther(k)
                    /\ UNCHANGED <<now, conc>>

Next ==
    \/ Tick
    \/ GetString
    \/ GetHashField
    \/ Exists
    \/ PutString
    \/ PutHashFields
    \/ PutExpiry
    \/ DeleteExpiry
    \/ IncrementBy
    \/ IncrementByFloat
    \/ Delete
    \/ Incr
    \/ Decr
    \/ IncrBy
    \/ DecrBy

Spec == Init /\ [][Next]_vars

---------------------------------------------------------------------------
(* The expiry commands: one connection sending SET, DEL, INCRBY and the    *)
(* commands of generic.rs, each handler running to its end.  last.val is   *)
(* the text of the numeric argument, last.fields the option words.         *)

NumTexts == {<<"1">>, <<"2">>, <<"7">>, <<"x">>}

OptionWords == {<<"N", "X">>, <<"n", "x">>, <<"X", "X">>, <<"G", "T">>,
                <<"L", "T">>}

\* the words after the number: none, one, or two
OptionLists ==
    {<<>>} \cup {<<a>> : a \in OptionWords}
           \cup {<<<<"N", "X">>, <<"X", "X">>>>, <<<<"G", "T">>, <<"n", "x">>>>,
                 <<<<"L", "T">>, <<"N", "X">>>>, <<<<"X", "X">>, <<"G", "T">>>>,
                 <<<<"X", "X">>, <<"L", "T">>>>, <<<<"G", "T">>, <<"L", "T">>>>}

CommandWith(op, key, val, opts, argc, r) ==
    [Command(op, key, val, argc, r) EXCEPT !.fields = opts]

Advance ==
    /\ now < MaxClock
    /\ now' = now + 1
    /\ last' = NoCall
    /\ UNCHANGED <<db, scen, conc>>

Set ==
    \E k \in Keys :
      \E args \in {<<"SET", k, <<"v">>>>, <<"SET", k>>} :
        LET r == set(db, args)
        IN  /\ db' = r.db
            /\ last' = Command("SET", k, <<>>, Len(args), r)
            /\ scen' = ScenOther(k)
            /\ UNCHANGED <<now, conc>>

Expire ==
    \E k \in Keys :
      \E args \in {<<"EXPIRE", k>>}
                  \cup {<<"EXPIRE", k, n>> \o o : n \in NumTexts, o \in OptionLists} :
        LET r == expire(db, now, args)
        IN  /\ db' = r.db
            /\ last' = CommandWith("EXPIRE", k,
                                   IF Len(args) > 2 THEN args[3] ELSE <<>>,
                                   SubSeq(args, 4, Len(args)), Len(args), r)
            /\ scen' = ScenOther(k)
            /\ UNCHANGED <<now, conc>>

\* the argument vectors of PEXPIRE, EXPIREAT and PEXPIREAT
VariantArgs(name, k) ==
    {<<name, k>>}
    \cup {<<name, k, n>> \o o : n \in NumTexts,
                               o \in {<<>>, <<<<"N", "X">>>>, <<<<"G", "T">>>>}}

PExpire ==
    \E k \in Keys :
      \E args \in VariantArgs("PEXPIRE", k) :
        LET r == pexpire(db, now, args)
        IN  /\ db' = r.db
            /\ last' = CommandWith("PEXPIRE", k,
                                   IF Len(args) > 2 THEN args[3] ELSE <<>>,
                                   SubSeq(args, 4, Len(args)), Len(args), r)
            /\ scen' = ScenOther(k)
            /\ UNCHANGED <<now, conc>>

ExpireAt ==
    \E k \in Keys :
      \E args \in VariantArgs("EXPIREAT", k) :
        LET r == expireat(db, now, args)
        IN  /\ db' = r.db
            /\ last' = CommandWith("EXPIREAT", k,
                                   IF Len(args) > 2 THEN args[3] ELSE <<>>,
                                   SubSeq(args, 4, Len(args)), Len(args), r)
            /\ scen' = ScenOther(k)
            /\ UNCHANGED <<now, conc>>

PExpireAt ==
    \E k \in Keys :
      \E args \in VariantArgs("PEXPIREAT", k) :
        LET r == pexpireat(db, now, args)
        IN  /\ db' = r.db
            /\ last' = CommandWith("PEXPIREAT", k,
                                   IF Len(args) > 2 THEN args[3] ELSE <<>>,
                                   SubSeq(args, 4, Len(args)), Len(args), r)
            /\ scen' = ScenOther(k)
            /\ UNCHANGED <<now, conc>>

Ttl ==
    \E k \in Keys :
      \E args \in {<<"TTL", k>>, <<"TTL">>} :
        LET r == ttl(db, now, args)
        IN  /\ db' = r.db
            /\ last' = Command("TTL", k, <<>>, Len(args), r)
            /\ UNCHANGED <<now, scen, conc>>

Pttl ==
    \E k \in Keys :
      \E args \in {<<"PTTL", k>>, <<"PTTL">>} :
        LET r == pttl(db, now, args)
        IN  /\ db' = r.db
            /\ last' = Command("PTTL", k, <<>>, Len(args), r)
            /\ UNCHANGED <<now, scen, conc>>

SetEx ==
    \E k \in Keys, n \in NumTexts :
      \E args \in {<<"SETEX", k, n, <<"v">>>>, <<"SETEX", k, n>>} :
        LET r == setex(db, now, args)
        IN  /\ db' = r.db
            /\ last' = Command("SETEX", k, n, Len(args), r)
            /\ scen' = ScenOther(k)
            /\ UNCHANGED <<now, conc>>

ExistsCmd ==
    \E k \in Keys :
      \E args \in {<<"EXISTS", k>>, <<"EXISTS", k, k>>, <<"EXISTS">>} :
        LET r == exists_cmd(db, args)
        IN  /\ db' = r.db
            /\ last' = Command("EXISTS", k, <<>>, Len(args), r)
            /\ UNCHANGED <<now, scen, conc>>

\* DEL and UNLINK of the key, of the key listed twice, and of nothing
Del ==
    \E k \in Keys :
      \E args \in {<<"DEL", k>>, <<"DEL", k, k>>, <<"UNLINK", k>>, <<"DEL">>} :
        LET r == IF args[1] = "UNLINK" THEN unlink(db, args) ELSE del(db, args)
        IN  /\ db' = r.db
            /\ last' = [Command(args[1], k, <<>>, Len(args), r)
                            EXCEPT !.fields = Tail(args)]
            /\ scen' = ScenOther(k)
            /\ UNCHANGED <<now, conc>>

Persist ==
    \E k \in Keys :
      \E args \in {<<"PERSIST", k>>, <<"PERSIST">>} :
        LET r == persist(db, args)
        IN  /\ db' = r.db
            /\ last' = Command("PERSIST", k, <<>>, Len(args), r)
            /\ scen' = ScenOther(k)
            /\ UNCHANGED <<now, conc>>

ExpireTime ==
    \E k \in Keys :
      \E args \in {<<"EXPIRETIME", k>>, <<"EXPIRETIME">>} :
        LET r == expiretime(db, now, args)
        IN  /\ db' = r.db
            /\ last' = Command("EXPIRETIME", k, <<>>, Len(args), r)
            /\ UNCHANGED <<now, scen, conc>>

PExpireTime ==
    \E k \in Keys :
      \E args \in {<<"PEXPIRETIME", k>>, <<"PEXPIRETIME">>} :
        LET r == pexpiretime(db, now, args)
        IN  /\ db' = r.db
            /\ last' = Command("PEXPIRETIME", k, <<>>, Len(args), r)
            /\ UNCHANGED <<now, scen, conc>>

NextGeneric ==
    \/ Advance
    \/ Set
    \/ Delete
    \/ Expire
    \/ PExpire
    \/ ExpireAt
    \/ PExpireAt
    \/ Ttl
    \/ Pttl
    \/ SetEx
    \/ ExistsCmd
    \/ Del

\* SET, the removal of a key, the clock, and the commands that set,
\* read and remove an absolute expiry time
NextExpiry ==
    \/ Advance
    \/ Set
    \/ Delete
    \/ Persist
    \/ ExpireAt
    \/ PExpireAt
    \/ ExpireTime
    \/ PExpireTime

SpecExpiry == Init /\ [][NextExpiry]_vars

SpecGeneric == Init /\ [][NextGeneric]_vars

---------------------------------------------------------------------------
(* The TTL encoding on its own: a duration is serialised at some instant   *)
(* and the text is parsed back, at once or later.  scen keeps the text,    *)
(* the duration and the instant now + duration of the encoding.            *)

\* durations in ticks, up to the first one no clock reading can encode
EncodeDurations == 0..HugeDuration

SerializeDuration ==
    \E dur \in EncodeDurations :
        LET r == serialize_duration_as_timestamp(now, dur)
        IN  /\ last' = [NoCall EXCEPT
                            !.op = "serialize_duration_as_timestamp",
                            !.num = dur, !.val = r.val,
                            !.ret = IF r.kind = "Ok" THEN RetUnit
                                    ELSE RetErr(r.kind)]
            /\ scen' = IF r.kind = "Ok"
                       THEN [stage |-> "encoded", key |-> "", v |-> r.val,
                             delta |-> dur, deadline |-> now + dur]
                       ELSE NoScen
            /\ UNCHANGED <<db, now, conc>>

ParseTimestamp ==
    /\ scen.stage = "encoded"
    /\ LET r == parse_timestamp(scen.v)
       IN  last' = [NoCall EXCEPT
                        !.op = "parse_timestamp", !.val = scen.v,
                        !.ret = IF r.kind = "Ok" THEN RetNum(r.val)
                                ELSE RetErr(r.kind)]
    /\ UNCHANGED <<db, now, scen, conc>>

NextTime ==
    \/ Advance
    \/ SerializeDuration
    \/ ParseTimestamp

SpecTime == Init /\ [][NextTime]_vars

---------------------------------------------------------------------------
(* HSET, GETRANGE and SUBSTR: one connection storing texts of up to        *)
(* MaxText bytes and hashes, and asking for ranges of them.  last.fields   *)
(* is the pair of index words, or the pairs of HSET.                       *)

MaxText == 3

MaxIndex == 4

Letters == <<"a", "b", "c", "d", "e">>

\* the texts "", "a", "ab", "abc", ...
RangeValues == {SubSeq(Letters, 1, n) : n \in 0..MaxText}

IndexWords == {I64ToString(i) : i \in (0 - MaxIndex)..MaxIndex} \cup {<<"x">>}

SetText ==
    \E k \in Keys, v \in RangeValues :
        LET r == set(db, <<"SET", k, v>>)
        IN  /\ db' = r.db
            /\ last' = Command("SET", k, v, 3, r)
            /\ scen' = ScenOther(k)
            /\ UNCHANGED <<now, conc>>

\* every pair of index words under GETRANGE; under SUBSTR the pairs of equal
\* words and a vector that lacks the end index
RangeArgs(k) ==
    {<<"GETRANGE", k, s, e>> : s \in IndexWords, e \in IndexWords}
    \cup {<<"SUBSTR", k, s, s>> : s \in IndexWords}
    \cup {<<"SUBSTR", k, <<"0">>>>}

Substr ==
    \E k \in Keys :
      \E args \in RangeArgs(k) :
        LET r == IF args[1] = "GETRANGE" THEN getrange(db, now, args)
                 ELSE substr(db, now, args)
        IN  /\ db' = r.db
            /\ last' = [Command(args[1], k, <<>>, Len(args), r)
                            EXCEPT !.fields = SubSeq(args, 3, Len(args))]
            /\ UNCHANGED <<now, scen, conc>>

NextStrings ==
    \/ SetText
    \/ PutHashFields
    \/ Hset
    \/ Delete
    \/ Substr

SpecStrings == Init /\ [][NextStrings]_vars

---------------------------------------------------------------------------
(* src/src/indexing.rs and src/src/commands/bitmap.rs.  A byte has         *)
(* ByteBits bits, bit 0 being its most significant one; a byte vector is   *)
(* a sequence of numbers below 2^ByteBits.  indexing.rs holds the same     *)
(* adjust_index and adjust_indices as strings.rs.                          *)

ByteBits == 3

MaxBytes == 2

ByteMax == 2^ByteBits - 1

ByteVectors == UNION {[1..n -> 0..ByteMax] : n \in 0..MaxBytes}

\* bit i of a byte, counted from the most significant bit
BitOf(byte, i) == (byte \div 2^(ByteBits - 1 - i)) % 2

\* the bit at a position of a byte vector
BitAt(data, pos) == BitOf(data[(pos \div ByteBits) + 1], pos % ByteBits)

RECURSIVE WeighBits(_, _)
WeighBits(f, i) ==
    IF i = ByteBits THEN 0
    ELSE f[i] * 2^(ByteBits - 1 - i) + WeighBits(f, i + 1)

\* the byte whose bits, most significant first, are f[0], f[1], ...
ByteOf(f) == WeighBits(f, 0)

BitAnd(a, b) == ByteOf([i \in 0..(ByteBits - 1) |-> BitOf(a, i) * BitOf(b, i)])

BitNot(a) == ByteMax - a

\* u8::reverse_bits
reverse_bits(a) == ByteOf([i \in 0..(ByteBits - 1) |-> BitOf(a, ByteBits - 1 - i)])

RECURSIVE count_ones(_)
\* popcnt::count_ones
count_ones(data) ==
    IF Len(data) = 0 THEN 0
    ELSE Cardinality({i \in 0..(ByteBits - 1) : BitOf(Head(data), i) = 1})
         + count_ones(Tail(data))

bit_to_mask(to_bit) == 2^to_bit - 1

bit_range(data, start_bit, end_bit_exclusive) ==
    LET n == Len(data)
        start_byte == start_bit \div ByteBits
        beyond == end_bit_exclusive \div ByteBits > n - 1
        end_byte == IF beyond THEN n - 1 ELSE end_bit_exclusive \div ByteBits
        end_bit == IF beyond THEN n * ByteBits ELSE end_bit_exclusive
        start_bitmask == reverse_bits(bit_to_mask(start_bit % ByteBits))
        end_bitmask ==
            reverse_bits(IF end_bit % ByteBits = 0 /\ end_bit # 0 THEN ByteMax
                         ELSE bit_to_mask(end_bit % ByteBits))
        data_copy(i) ==
            IF i < start_byte \/ i > end_byte THEN 0
            ELSE IF end_byte = start_byte
                 THEN BitAnd(data[i + 1], BitAnd(BitNot(start_bitmask), end_bitmask))
            ELSE IF i = start_byte THEN BitAnd(data[i + 1], BitNot(start_bitmask))
            ELSE IF i = end_byte THEN BitAnd(data[i + 1], end_bitmask)
            ELSE data[i + 1]
    IN  IF n = 0 THEN <<>>
        ELSE IF end_byte < start_byte THEN <<>>
        ELSE [i \in 1..n |-> data_copy(i - 1)]

\* the first bit of the byte, from the most significant one, that equals
\* needle
find_first_bit_pos_byte(bale, needle) ==
    LET hits == {i \in 0..(ByteBits - 1) : BitOf(bale, i) = needle}
    IN  IF hits = {} THEN None
        ELSE Some(CHOOSE i \in hits : \A j \in hits : i <= j)

\* the first byte whose first matching bit lies in the range decides
find_first_bit_pos(haystack, needle, start_bit, end_bit_exclusive) ==
    LET pos(i) == (i - 1) * ByteBits
                  + Unwrap(find_first_bit_pos_byte(haystack[i], needle))
        hits == {i \in 1..Len(haystack) :
                    /\ find_first_bit_pos_byte(haystack[i], needle) # None
                    /\ pos(i) >= start_bit
                    /\ pos(i) < end_bit_exclusive}
    IN  IF end_bit_exclusive <= start_bit THEN None
        ELSE IF hits = {} THEN None
        ELSE Some(pos(CHOOSE i \in hits : \A j \in hits : i <= j))

BIT == <<"B", "I", "T">>

\* bitcount: val.len() - 1 and val.len() * 8 - 1 leave usize when the value
\* is empty, and &val[start..=end] unwinds when start > end + 1
bitcount(d, t, args) ==
    LET value == get_string(d, t, args[2]).ret
        val == IF value.bytes = None THEN <<>> ELSE Unwrap(value.bytes)
        start == ParseI64(Utf8Lossy(args[3]))
        end == ParseI64(Utf8Lossy(args[4]))
        bits == adjust_indices(Len(val) * ByteBits - 1, start.val, end.val)
        bytes == adjust_indices(Len(val) - 1, start.val, end.val)
    IN  IF Len(args) < 2 \/ Len(args) > 5
        THEN CmdRes(d, RetUnit, write_error(ClientError_ArgCount))
        ELSE IF value.kind = "WrongType"
             THEN CmdRes(d, RetUnit, write_error(ClientError_WrongType))
        ELSE IF value.kind # "Ok" THEN CmdRes(d, value, NoReply)
        ELSE IF Len(args) = 5 /\ to_uppercase(Utf8Lossy(args[5])) = BIT
        THEN (IF ~start.ok \/ ~end.ok THEN CmdRes(d, RetErr("ParseInt"), NoReply)
              ELSE IF Len(val) = 0 THEN CmdRes(d, RetErr("Panic"), NoReply)
              ELSE IF bits[1].kind # "Ok" \/ bits[2].kind # "Ok"
                   THEN CmdRes(d, RetErr("Panic"), NoReply)
              ELSE CmdRes(d, RetUnit,
                          write_integer(count_ones(
                              bit_range(val, bits[1].val, bits[2].val + 1)))))
        ELSE IF Len(args) >= 4
        THEN (IF ~start.ok \/ ~end.ok THEN CmdRes(d, RetErr("ParseInt"), NoReply)
              ELSE IF Len(val) = 0 THEN CmdRes(d, RetErr("Panic"), NoReply)
              ELSE IF bytes[1].kind # "Ok" \/ bytes[2].kind # "Ok"
                   THEN CmdRes(d, RetErr("Panic"), NoReply)
              ELSE IF bytes[1].val > bytes[2].val + 1
                   THEN CmdRes(d, RetErr("Panic"), NoReply)
              ELSE CmdRes(d, RetUnit,
                          write_integer(count_ones(
                              Slice(val, bytes[1].val, bytes[2].val)))))
        ELSE CmdRes(d, RetUnit, write_integer(count_ones(val)))

\* the indices given to adjust_indices, below, inside and above the range
IndexRange == (0 - MaxIndex - 2)..(MaxIndex + 2)

\* a call of adjust_indices: num is end_index, fields the two indices, and
\* ret.bytes holds the pair of results when neither conversion unwound
AdjustIndices ==
    \E end_index \in 0..MaxIndex, start \in IndexRange, end \in IndexRange :
        LET r == adjust_indices(end_index, start, end)
        IN  /\ last = NoCall
            /\ last' = [NoCall EXCEPT
                            !.op = "adjust_indices", !.num = end_index,
                            !.fields = <<start, end>>,
                            !.ret = IF r[1].kind = "Ok" /\ r[2].kind = "Ok"
                                    THEN RetBytes(Some(<<r[1].val, r[2].val>>))
                                    ELSE RetErr("Panic")]
            /\ UNCHANGED <<db, now, scen, conc>>

NextIndexing == AdjustIndices

SpecIndexing == Init /\ [][NextIndexing]_vars

\* the stores of one command: the empty one, and the one after SET k v for
\* every byte vector v
BitmapStores ==
    {[p \in PhysKeys |-> None]}
    \cup {set([p \in PhysKeys |-> None], <<"SET", k, v>>).db :
              k \in Keys, v \in ByteVectors}

InitBitmap ==
    /\ db \in BitmapStores
    /\ now = 0
    /\ last = NoCall
    /\ scen = NoScen
    /\ conns = [c \in Conns |-> Idle]
    /\ commits = <<>>
    /\ srv = NoServer

\* the bit ranges 0 <= s <= e <= bits of the vector
BitRanges(data) ==
    {<<s, e>> \in (0..(Len(data) * ByteBits)) \X (0..(Len(data) * ByteBits)) :
        s <= e}

\* the stored String of a key
StoredBytes(k) ==
    LET value == get_string(db, now, k).ret
    IN  IF value.kind = "Ok" /\ value.bytes # None THEN Unwrap(value.bytes)
        ELSE <<>>

\* bit_range on the stored value: val is the vector, fields the range, and
\* ret.bytes holds the result
BitRange ==
    \E k \in Keys :
      \E range \in BitRanges(StoredBytes(k)) :
        /\ last = NoCall
        /\ last' = [NoCall EXCEPT
                        !.op = "bit_range", !.key = k, !.val = StoredBytes(k),
                        !.fields = range,
                        !.ret = RetBytes(Some(bit_range(StoredBytes(k),
                                                        range[1], range[2])))]
        /\ UNCHANGED <<db, now, scen, conc>>

\* find_first_bit_pos on the stored value: num is the needle
FindFirstBitPos ==
    \E k \in Keys, needle \in {0, 1} :
      \E range \in BitRanges(StoredBytes(k)) :
        /\ last = NoCall
        /\ last' = [NoCall EXCEPT
                        !.op = "find_first_bit_pos", !.key = k,
                        !.val = StoredBytes(k), !.num = needle,
                        !.fields = range,
                        !.ret = RetBytes(find_first_bit_pos(
                                    StoredBytes(k), needle, range[1], range[2]))]
        /\ UNCHANGED <<db, now, scen, conc>>

ByteIndexWords ==
    {I64ToString(i) : i \in (0 - MaxBytes - 1)..(MaxBytes + 1)}

BitIndexWords ==
    {I64ToString(i) : i \in (0 - MaxBytes * ByteBits - 1)..(MaxBytes * ByteBits)}

BitCountArgs(k) ==
    {<<"BITCOUNT", k>>, <<"BITCOUNT">>, <<"BITCOUNT", k, <<"0">>, <<"x">>>>}
    \cup {<<"BITCOUNT", k, s, e>> : s \in ByteIndexWords, e \in ByteIndexWords}
    \cup {<<"BITCOUNT", k, s, e, BIT>> : s \in BitIndexWords, e \in BitIndexWords}

BitCount ==
    \E k \in Keys :
      \E args \in BitCountArgs(k) :
        LET r == bitcount(db, now, args)
        IN  /\ last = NoCall
            /\ db' = r.db
            /\ last' = [Command("BITCOUNT", k, <<>>, Len(args), r)
                            EXCEPT !.fields = SubSeq(args, 3, Len(args))]
            /\ UNCHANGED <<now, scen, conc>>

\* one call or one command on each store
NextBitmap ==
    \/ BitRange
    \/ FindFirstBitPos
    \/ BitCount

SpecBitmap == InitBitmap /\ [][NextBitmap]_vars

---------------------------------------------------------------------------
(* src/src/server.rs: serve, Server::run and the task of each connection.  *)
(* The frame parser and the handler are not written in the sources: a      *)
(* frame is what the client sent next, and a handler that was started      *)
(* finishes.                                                               *)
(*   srv.phase    "running" while serve() waits in its select, "draining"  *)
(*                once it waits for the tasks, "returned" at the end       *)
(*   srv.fired    the shutdown future is ready                             *)
(*   srv.tasks    the connection tasks                                     *)

MaxFrames == 2

ServerIdle == UNCHANGED <<db, now, last, scen, conns, commits>>

SetTask(c, task) == srv' = [srv EXCEPT !.tasks[c] = task]

\* the callbacks a handler has seen, in order: cb is "opened" after
\* on_open, "commands" after on_open and one or more on_command, "closed"
\* after on_close following those, and "bad" after any other sequence
OnOpen(cb) == IF cb = "none" THEN "opened" ELSE "bad"

OnCommand(cb) == IF cb \in {"opened", "commands"} THEN "commands" ELSE "bad"

OnClose(cb) == IF cb \in {"opened", "commands"} THEN "closed" ELSE "bad"

\* Server::run: accept, build the ConnWrap, spawn the task; the task runs
\* on_open and enters its loop
Accept(c) ==
    /\ srv.phase = "running"
    /\ srv.tasks[c].pos = "none"
    /\ SetTask(c, [NoTask EXCEPT !.pos = "select", !.shutdown_complete = TRUE,
                                 !.cb = OnOpen(@)])
    /\ ServerIdle

\* the client of connection c sends its next command
FrameArrives(c) ==
    /\ srv.tasks[c].pos \in {"select", "on_command"}
    /\ srv.tasks[c].eof = "no"
    /\ srv.tasks[c].arrived < MaxFrames
    /\ SetTask(c, [srv.tasks[c] EXCEPT !.arrived = @ + 1])
    /\ ServerIdle

\* run_inner that starts the handler and goes back to reading
run_inner_spawn_handler(task, maybe_frame) ==
    [task EXCEPT !.read = IF maybe_frame = None THEN @ ELSE @ + 1,
                 !.running = @ + 1, !.cb = OnCommand(@)]

\* run_inner once read_frame has returned Ok(maybe_frame): the frame is not
\* looked at, handler.on_command(..).await follows in either case; read
\* counts the frames
run_inner_after_frame(task, maybe_frame) ==
    [task EXCEPT !.pos = "on_command",
                 !.read = IF maybe_frame = None THEN @ ELSE @ + 1,
                 !.running = @ + 1, !.cb = OnCommand(@)]

\* the select of run_inner takes the read_frame branch
ReadFrame(c) ==
    /\ srv.tasks[c].pos = "select"
    /\ srv.tasks[c].read < srv.tasks[c].arrived
    /\ SetTask(c, run_inner_after_frame(srv.tasks[c], Some("frame")))
    /\ ServerIdle

\* a handler of connection c returns, its reply written; replied counts
\* the handlers of frames
HandlerDone(c) ==
    /\ srv.tasks[c].running > 0
    /\ SetTask(c, [srv.tasks[c] EXCEPT
                       !.running = @ - 1,
                       !.replied = IF @ < srv.tasks[c].read THEN @ + 1 ELSE @,
                       !.pos = IF @ = "on_command" THEN "select" ELSE @])
    /\ ServerIdle

\* the shutdown future given to serve() becomes ready
ShutdownFires ==
    /\ srv.phase = "running"
    /\ ~srv.fired
    /\ srv' = [srv EXCEPT !.fired = TRUE]
    /\ ServerIdle

\* the select of serve() takes the shutdown branch: Server::run is dropped,
\* then notify_shutdown and shutdown_complete_tx
SelectShutdown ==
    /\ srv.phase = "running"
    /\ srv.fired
    /\ srv' = [srv EXCEPT !.phase = "draining", !.notify_shutdown = FALSE,
                          !.shutdown_complete_tx = FALSE]
    /\ ServerIdle

\* accept fails: Server::run returns the error and serve() goes on as after
\* a shutdown
AcceptError ==
    /\ srv.phase = "running"
    /\ srv' = [srv EXCEPT !.phase = "draining", !.notify_shutdown = FALSE,
                          !.shutdown_complete_tx = FALSE]
    /\ ServerIdle

\* ConnWrap::run that returns the error of run_inner with `?`
run_close_unless_err(task, result) ==
    [task EXCEPT !.pos = "closed", !.result = result,
                 !.cb = IF result = "Err" THEN @ ELSE OnClose(@),
                 !.shutdown_complete = FALSE]

\* ConnWrap::run once run_inner has returned result: on_close, then the
\* task ends and drops its ConnWrap
run(task, result) ==
    [task EXCEPT !.pos = "closed", !.result = result, !.cb = OnClose(@),
                 !.shutdown_complete = FALSE]

\* Shutdown::recv returns because the broadcast channel is closed, and
\* run_inner returns Ok
ObserveShutdown(c) ==
    /\ srv.tasks[c].pos = "select"
    /\ ~srv.notify_shutdown
    /\ SetTask(c, run([srv.tasks[c] EXCEPT !.is_shutdown = TRUE], "Ok"))
    /\ ServerIdle

\* the peer closes its end, after a whole frame ("clean") or in the middle
\* of one ("partial")
PeerCloses(c) ==
    /\ srv.tasks[c].pos \in {"select", "on_command"}
    /\ srv.tasks[c].eof = "no"
    /\ \E how \in {"clean", "partial"} :
          SetTask(c, [srv.tasks[c] EXCEPT !.eof = how])
    /\ ServerIdle

\* Conn::read_frame at the end of the stream with an empty buffer: Ok(None)
ReadEof(c) ==
    /\ srv.tasks[c].pos = "select"
    /\ srv.tasks[c].eof = "clean"
    /\ srv.tasks[c].read = srv.tasks[c].arrived
    /\ SetTask(c, [run_inner_after_frame(srv.tasks[c], None)
                       EXCEPT !.spun = TRUE])
    /\ ServerIdle

\* Conn::read_frame at the end of the stream with part of a frame in the
\* buffer: Err, which run_inner returns
ReadError(c) ==
    /\ srv.tasks[c].pos = "select"
    /\ srv.tasks[c].eof = "partial"
    /\ srv.tasks[c].read = srv.tasks[c].arrived
    /\ SetTask(c, run(srv.tasks[c], "Err"))
    /\ ServerIdle

\* serve() that does not wait for the tasks
shutdown_complete_recv_no_wait(s) == TRUE

\* shutdown_complete_rx.recv() returns None: every sender is dropped
shutdown_complete_recv(s) ==
    /\ ~s.shutdown_complete_tx
    /\ \A c \in Conns : ~s.tasks[c].shutdown_complete

ServeReturns ==
    /\ srv.phase = "draining"
    /\ shutdown_complete_recv(srv)
    /\ srv' = [srv EXCEPT !.phase = "returned"]
    /\ ServerIdle

NextServer ==
    \/ \E c \in Conns : Accept(c)
    \/ \E c \in Conns : FrameArrives(c)
    \/ \E c \in Conns : ReadFrame(c)
    \/ \E c \in Conns : HandlerDone(c)
    \/ ShutdownFires
    \/ SelectShutdown
    \/ AcceptError
    \/ \E c \in Conns : ObserveShutdown(c)
    \/ ServeReturns

\* the runtime polls a task that can go on; a handler returns; a select
\* with both branches ready picks either, so a task that is again and
\* again at its select with the channel closed takes the shutdown branch
FairServer ==
    /\ WF_vars(SelectShutdown)
    /\ WF_vars(ServeReturns)
    /\ \A c \in Conns : WF_vars(HandlerDone(c))
    /\ \A c \in Conns : SF_vars(ObserveShutdown(c))

SpecServer == Init /\ [][NextServer]_vars /\ FairServer

\* the server with clients that close their connections
NextConnection ==
    \/ \E c \in Conns : Accept(c)
    \/ \E c \in Conns : FrameArrives(c)
    \/ \E c \in Conns : ReadFrame(c)
    \/ \E c \in Conns : HandlerDone(c)
    \/ \E c \in Conns : PeerCloses(c)
    \/ \E c \in Conns : ReadEof(c)
    \/ \E c \in Conns : ReadError(c)
    \/ ShutdownFires
    \/ SelectShutdown
    \/ \E c \in Conns : ObserveShutdown(c)
    \/ ServeReturns

\* a task whose read_frame can return is polled
FairConnection ==
    /\ FairServer
    /\ \A c \in Conns : WF_vars(ReadEof(c))
    /\ \A c \in Conns : WF_vars(ReadError(c))

SpecConnection == Init /\ [][NextConnection]_vars /\ FairConnection

TypeOK ==
    /\ DOMAIN db = PhysKeys
    /\ now \in 0..MaxNow
    /\ \A k \in Keys : db[prepend_key(k, TYPE_KEY_PREFIX)] \in {None, Some(TYPE_STRING), Some(TYPE_HASH)}

---------------------------------------------------------------------------
(* Two connections.  A handler is a sequence of storage calls (stages);    *)
(* put_string and put_expiry are transactions of the pessimistic           *)
(* TransactionDB: put, delete and get_for_update take the lock of their    *)
(* key, or wait while another transaction holds it, or give up with an     *)
(* error when the lock wait times out; commit applies the buffered writes  *)
(* at once and releases the locks.  db.get and multi_get read what is      *)
(* committed.  Each connection sends one command.                          *)
(*   conns[c]   the command, the triple when it was sent, the storage      *)
(*              calls still to make, the steps left of the open            *)
(*              transaction, its locks and buffered writes, the result     *)
(*   commits    the transactions committed so far, in order, each with    *)
(*              the triple of its key once it is applied                   *)

TxnPut(key, value) == [kind |-> "put", key |-> key, val |-> Some(value)]

TxnDelete(key) == [kind |-> "delete", key |-> key, val |-> None]

TxnGetForUpdate(key) == [kind |-> "get_for_update", key |-> key, val |-> None]

TxnCommit == [kind |-> "commit", key |-> <<>>, val |-> None]

\* put_typed_value that deletes the TTL record in a transaction of its own
put_typed_value_steps_split(key, value, type_id) ==
    <<TxnDelete(prepend_key(key, TTL_KEY_PREFIX)),
      TxnCommit,
      TxnPut(prepend_key(key, TYPE_KEY_PREFIX), type_id),
      TxnPut(prepend_key(key, DATA_KEY_PREFIX), value),
      TxnCommit>>

\* Database::put_typed_value with put_typed_value_txn, call by call
put_typed_value_steps(key, value, type_id) ==
    <<TxnPut(prepend_key(key, TYPE_KEY_PREFIX), type_id),
      TxnPut(prepend_key(key, DATA_KEY_PREFIX), value),
      TxnDelete(prepend_key(key, TTL_KEY_PREFIX)),
      TxnCommit>>

\* Database::put_expiry after ttl_ms is computed, call by call
put_expiry_steps(key, ttl_ms) ==
    <<TxnGetForUpdate(prepend_key(key, DATA_KEY_PREFIX)),
      TxnPut(prepend_key(key, TTL_KEY_PREFIX), ttl_ms),
      TxnCommit>>

\* the storage calls of set, expire (no option, and NX) and setex, in order
Stages(cmd) ==
    IF cmd = "SET" THEN <<"put_string">>
    ELSE IF cmd = "EXPIRE" THEN <<"put_expiry">>
    ELSE IF cmd = "EXPIRE NX" THEN <<"get_expiry", "put_expiry">>
    ELSE <<"put_string", "put_expiry">>

ConcCommands == {"SET", "EXPIRE", "EXPIRE NX", "SETEX"}

\* seconds of EXPIRE and SETEX: one that fits the TTL record, one that does not
ConcSecs == {1, I64Max}

\* the value SET writes, the value SETEX writes, the value found at the start
SetValue == <<"v">>

SetexValue == <<"w">>

FoundValue == <<"a">>

\* the store with every key's triple equal to tr
StoreOf(tr) ==
    [p \in PhysKeys |-> IF p[1] = TYPE_KEY_PREFIX THEN tr[1]
                        ELSE IF p[1] = DATA_KEY_PREFIX THEN tr[2] ELSE tr[3]]

\* stores reached by nothing, by SET, and by SET and EXPIRE
ConcStores ==
    {StoreOf(<<None, None, None>>),
     StoreOf(<<Some(TYPE_STRING), Some(FoundValue), None>>),
     StoreOf(<<Some(TYPE_STRING), Some(FoundValue),
               Some(serialize_duration_as_timestamp(0, 2 * TicksPerSec).val)>>)}

InitConc ==
    /\ db \in ConcStores
    /\ now = 0
    /\ last = NoCall
    /\ scen = NoScen
    /\ conns = [c \in Conns |-> Idle]
    /\ commits = <<>>
    /\ srv = NoServer

\* the handler of connection c has returned
Done(c) == conns[c].cmd # "none" /\ conns[c].stages = <<>>

\* the reply of a handler whose storage calls all returned Ok
FinalReply(cmd) ==
    IF cmd \in {"SET", "SETEX"} THEN write_string("OK") ELSE write_integer(1)

\* connection c after a storage call returned err: the open transaction is
\* dropped; expire writes integer 0, set and setex write nothing
Failed(c, err) ==
    [conns[c] EXCEPT !.stages = <<>>, !.todo = <<>>, !.locks = {},
                     !.writes = <<>>, !.ret = RetErr(err),
                     !.reply = IF conns[c].cmd \in {"EXPIRE", "EXPIRE NX"}
                               THEN write_integer(0) ELSE NoReply]

\* connection c after the storage call at the head of its stages returned Ok
Returned(cn) ==
    IF Len(cn.stages) = 1
    THEN [cn EXCEPT !.stages = <<>>, !.reply = FinalReply(cn.cmd)]
    ELSE [cn EXCEPT !.stages = Tail(cn.stages)]

LockedByOther(c, key) == \E o \in Conns \ {c} : key \in conns[o].locks

Issue(c) ==
    /\ conns[c].cmd = "none"
    /\ \E cmd \in ConcCommands, k \in Keys, secs \in ConcSecs :
          /\ cmd = "SET" => secs = 1
          /\ conns' = [conns EXCEPT ![c] =
                 [Idle EXCEPT !.cmd = cmd, !.key = k,
                              !.val = IF cmd = "SETEX" THEN SetexValue
                                      ELSE SetValue,
                              !.dur = secs * TicksPerSec,
                              !.pre = Triple(db, k),
                              !.stages = Stages(cmd)]]
    /\ UNCHANGED <<db, now, last, scen, commits, srv>>

\* expire, NX branch: db.get_expiry and the match on it
GetExpiryStep(c) ==
    /\ conns[c].stages # <<>>
    /\ Head(conns[c].stages) = "get_expiry"
    /\ conns[c].todo = <<>>
    /\ LET got == get_expiry(db, now, conns[c].key).ret
       IN  conns' = [conns EXCEPT ![c] =
               IF got.kind # "Ok"
               THEN [conns[c] EXCEPT !.stages = <<>>, !.ret = got]
               ELSE IF IsSome(got.bytes)
               THEN [conns[c] EXCEPT !.stages = <<>>,
                                    !.reply = write_integer(0)]
               ELSE Returned(conns[c])]
    /\ UNCHANGED <<db, now, last, scen, commits, srv>>

\* put_string: put_typed_value opens its transaction
BeginPutString(c) ==
    /\ conns[c].stages # <<>>
    /\ Head(conns[c].stages) = "put_string"
    /\ conns[c].todo = <<>>
    /\ conns' = [conns EXCEPT ![c].todo =
           put_typed_value_steps(conns[c].key, conns[c].val, TYPE_STRING)]
    /\ UNCHANGED <<db, now, last, scen, commits, srv>>

\* put_expiry: the timestamp is computed, then the transaction opens
BeginPutExpiry(c) ==
    /\ conns[c].stages # <<>>
    /\ Head(conns[c].stages) = "put_expiry"
    /\ conns[c].todo = <<>>
    /\ LET ttl_ms == serialize_duration_as_timestamp(now, conns[c].dur)
       IN  conns' = [conns EXCEPT ![c] =
               IF ttl_ms.kind # "Ok" THEN Failed(c, ttl_ms.kind)
               ELSE [conns[c] EXCEPT !.todo =
                         put_expiry_steps(conns[c].key, ttl_ms.val)]]
    /\ UNCHANGED <<db, now, last, scen, commits, srv>>

\* the calls of a transaction that take the lock of their key
LockingKinds == {"put", "delete", "get_for_update"}

\* txn.put, txn.delete, txn.get_for_update: take the lock, buffer the write;
\* get_for_update returns what is committed under the key
TxnStep(c) ==
    /\ conns[c].todo # <<>>
    /\ LET step == Head(conns[c].todo)
       IN  /\ step.kind \in LockingKinds
           /\ ~LockedByOther(c, step.key)
           /\ conns' = [conns EXCEPT ![c] =
                  [conns[c] EXCEPT
                       !.todo = Tail(conns[c].todo),
                       !.locks = conns[c].locks \cup {step.key},
                       !.seen = IF step.kind = "get_for_update"
                                THEN [conns[c].seen EXCEPT
                                          ![step.key] = db[step.key]]
                                ELSE conns[c].seen,
                       !.writes = IF step.kind = "get_for_update"
                                  THEN conns[c].writes
                                  ELSE Append(conns[c].writes, step)]]
    /\ UNCHANGED <<db, now, last, scen, commits, srv>>

\* the lock wait of txn.put, txn.delete or txn.get_for_update times out
LockTimeout(c) ==
    /\ conns[c].todo # <<>>
    /\ Head(conns[c].todo).kind \in LockingKinds
    /\ LockedByOther(c, Head(conns[c].todo).key)
    /\ conns' = [conns EXCEPT ![c] = Failed(c, "RocksDB")]
    /\ UNCHANGED <<db, now, last, scen, commits, srv>>

\* the store after the buffered writes ws, applied in order
RECURSIVE Apply(_, _)
Apply(d, ws) ==
    IF ws = <<>> THEN d
    ELSE Apply([d EXCEPT ![Head(ws).key] = Head(ws).val], Tail(ws))

\* txn.commit
Commit(c) ==
    /\ conns[c].todo # <<>>
    /\ Head(conns[c].todo).kind = "commit"
    /\ db' = Apply(db, conns[c].writes)
    /\ commits' = Append(commits,
           [conn |-> c, writes |-> conns[c].writes,
            overlap |-> \E o \in Conns \ {c} : conns[o].locks # {},
            after |-> Triple(Apply(db, conns[c].writes), conns[c].key)])
    /\ LET cn == [conns[c] EXCEPT !.todo = Tail(conns[c].todo),
                                  !.locks = {}, !.writes = <<>>]
       IN  conns' = [conns EXCEPT ![c] =
               IF cn.todo = <<>> THEN Returned(cn) ELSE cn]
    /\ UNCHANGED <<now, last, scen, srv>>

NextConc ==
    \/ Tick
    \/ \E c \in Conns : Issue(c)
    \/ \E c \in Conns : GetExpiryStep(c)
    \/ \E c \in Conns : BeginPutString(c)
    \/ \E c \in Conns : BeginPutExpiry(c)
    \/ \E c \in Conns : TxnStep(c)
    \/ \E c \in Conns : LockTimeout(c)
    \/ \E c \in Conns : Commit(c)

SpecConc == InitConc /\ [][NextConc]_vars

---------------------------------------------------------------------------
(* Two connections calling the storage layer: the readers get_string and   *)
(* get_hash_field, and the writers put_string, put_hash_fields,            *)
(* increment_by and delete.  A reader takes the triple with one multi_get, *)
(* which reads its keys from one committed state of the store.             *)
(* put_hash_fields and increment_by read the triple with three             *)
(* get_for_update calls, compute, and write in the same transaction.       *)
(*   conns[c].seen    what the reads of the call returned                  *)
(*   conns[c].since   the number of transactions committed when it began   *)

TripleKeys(key) ==
    <<prepend_key(key, TYPE_KEY_PREFIX), prepend_key(key, DATA_KEY_PREFIX),
      prepend_key(key, TTL_KEY_PREFIX)>>

TxnGet(keys) == [kind |-> "get", key |-> keys, val |-> None]

TxnCompute == [kind |-> "compute", key |-> <<>>, val |-> None]

\* get_triple that reads its three keys with three calls of db.get
get_triple_steps_one_by_one(key1, key2, key3) ==
    <<TxnGet(<<key1>>), TxnGet(<<key2>>), TxnGet(<<key3>>)>>

\* Database::get_triple: one multi_get of the three keys
get_triple_steps(key1, key2, key3) ==
    <<[kind |-> "multi_get", key |-> <<key1, key2, key3>>, val |-> None]>>

\* get_triple_for_update that reads without taking the locks
get_triple_for_update_steps_unlocked(key1, key2, key3) ==
    <<TxnGet(<<key1>>), TxnGet(<<key2>>), TxnGet(<<key3>>)>>

\* Database::get_triple_for_update: three get_for_update calls, in order
get_triple_for_update_steps(key1, key2, key3) ==
    <<TxnGetForUpdate(key1), TxnGetForUpdate(key2), TxnGetForUpdate(key3)>>

\* Database::delete_typed_value, call by call
delete_typed_value_steps(key) ==
    <<TxnDelete(prepend_key(key, TYPE_KEY_PREFIX)),
      TxnDelete(prepend_key(key, DATA_KEY_PREFIX)),
      TxnDelete(prepend_key(key, TTL_KEY_PREFIX)),
      TxnCommit>>

Readers == {"get_string", "get_hash_field"}

Writers == {"put_string", "put_hash_fields", "increment_by", "delete"}

\* the steps a storage call starts with; delete starts with exists, a
\* db.get of the type record
FirstSteps(call, key, value) ==
    LET ks == TripleKeys(key)
    IN  IF call \in Readers THEN get_triple_steps(ks[1], ks[2], ks[3])
        ELSE IF call = "put_string"
             THEN put_typed_value_steps(key, value, TYPE_STRING)
        ELSE IF call = "delete" THEN <<TxnGet(<<ks[1]>>)>>
        ELSE get_triple_for_update_steps(ks[1], ks[2], ks[3]) \o <<TxnCompute>>

\* amounts of increment_by
RmwAmounts == {1, 2}

\* the pair put_hash_fields writes and the field get_hash_field asks for
RmwPairs == <<<<<<"f">>, <<"b">>>>>>

RmwField == <<"f">>

\* stores reached by nothing, by SET 1, by SET 1 and EXPIRE, and by HSET f a
RmwStores ==
    {StoreOf(<<None, None, None>>),
     StoreOf(<<Some(TYPE_STRING), Some(<<"1">>), None>>),
     StoreOf(<<Some(TYPE_STRING), Some(<<"1">>),
               Some(serialize_duration_as_timestamp(0, 2 * TicksPerSec).val)>>),
     StoreOf(<<Some(TYPE_HASH),
               Some(to_json(DictInsert(EmptyDict, <<"f">>, <<"a">>), <<<<"f">>>>)),
               None>>)}

InitRmw ==
    /\ db \in RmwStores
    /\ now = 0
    /\ last = NoCall
    /\ scen = NoScen
    /\ conns = [c \in Conns |-> Idle]
    /\ commits = <<>>
    /\ srv = NoServer

IssueRmw(c) ==
    /\ conns[c].cmd = "none"
    /\ \E call \in Readers \cup Writers, k \in Keys, amount \in RmwAmounts :
          /\ call # "increment_by" => amount = 1
          /\ conns' = [conns EXCEPT ![c] =
                 [Idle EXCEPT !.cmd = call, !.key = k,
                              !.val = IF call = "put_string" THEN SetValue
                                      ELSE IF call = "get_hash_field"
                                           THEN RmwField ELSE <<>>,
                              !.num = amount,
                              !.fields = RmwPairs,
                              !.pre = Triple(db, k),
                              !.since = Len(commits),
                              !.stages = <<call>>,
                              !.todo = FirstSteps(call, k, SetValue)]]
    /\ UNCHANGED <<db, now, last, scen, commits, srv>>

\* the call of connection cn has returned ret
ReturnedWith(cn, ret) ==
    [cn EXCEPT !.stages = <<>>, !.todo = <<>>, !.ret = ret]

\* db.get and db.multi_get: the committed values of the keys of the step;
\* when they were the last step of the call, what the call does with them
ReadStep(c) ==
    /\ conns[c].todo # <<>>
    /\ Head(conns[c].todo).kind \in {"get", "multi_get"}
    /\ LET step == Head(conns[c].todo)
           read == {step.key[i] : i \in 1..Len(step.key)}
           seen == [p \in PhysKeys |-> IF p \in read THEN db[p]
                                       ELSE conns[c].seen[p]]
           cn == [conns[c] EXCEPT !.seen = seen, !.todo = Tail(conns[c].todo)]
       IN  conns' = [conns EXCEPT ![c] =
               IF cn.todo # <<>> THEN cn
               ELSE IF cn.cmd = "get_string"
               THEN ReturnedWith(cn, get_string(seen, now, cn.key).ret)
               ELSE IF cn.cmd = "get_hash_field"
               THEN ReturnedWith(cn, get_hash_field(seen, now, cn.key, cn.val).ret)
               ELSE IF ~db_exists(seen, cn.key) THEN ReturnedWith(cn, RetNum(0))
               ELSE [cn EXCEPT !.todo = delete_typed_value_steps(cn.key),
                               !.ret = RetNum(1)]]
    /\ UNCHANGED <<db, now, last, scen, commits, srv>>

\* increment_by and put_hash_fields between their reads and their writes:
\* the result is computed from what was read, and an error drops the
\* transaction
Compute(c) ==
    /\ conns[c].todo # <<>>
    /\ Head(conns[c].todo).kind = "compute"
    /\ LET cn == conns[c]
       IN  \E overflow_checks \in BOOLEAN :
           \E o \in IterOrders(HashAfterInsert(
                        get_typed_value(cn.seen, now, cn.key, TYPE_HASH).bytes,
                        cn.fields).dict) :
               LET r == IF cn.cmd = "increment_by"
                        THEN increment_by(cn.seen, now, cn.key, cn.num,
                                          overflow_checks)
                        ELSE put_hash_fields(cn.seen, now, cn.key, cn.fields, o)
                   after == Triple(r.db, cn.key)
               IN  conns' = [conns EXCEPT ![c] =
                       IF r.ret.kind # "Ok" THEN Failed(c, r.ret.kind)
                       ELSE [cn EXCEPT
                                !.todo = put_typed_value_steps(
                                             cn.key, Unwrap(after[2]),
                                             Unwrap(after[1])),
                                !.ret = r.ret]]
    /\ UNCHANGED <<db, now, last, scen, commits, srv>>

NextRmw ==
    \/ \E c \in Conns : IssueRmw(c)
    \/ \E c \in Conns : ReadStep(c)
    \/ \E c \in Conns : Compute(c)
    \/ \E c \in Conns : TxnStep(c)
    \/ \E c \in Conns : LockTimeout(c)
    \/ \E c \in Conns : Commit(c)

SpecRmw == InitRmw /\ [][NextRmw]_vars

---------------------------------------------------------------------------
(* Properties *)

\* the instant, in ticks, a TTL record decodes to
TtlInstant(ttl_value) == ParseI64(Unwrap(ttl_value)).val * TicksPerMs

\* a triple whose TTL record holds a timestamp <= t
Elapsed(triple, t) == IsSome(triple[3]) /\ TtlInstant(triple[3]) <= t

\* a triple of a key that exists and has not expired at t
Live(triple, t) == IsSome(triple[1]) /\ ~Elapsed(triple, t)

LiveWithTag(triple, t, tag) == Live(triple, t) /\ triple[1] = Some(tag)

Absent == <<None, None, None>>

\* C1: on a live key of the other type put_hash_fields and get_hash_field
\* (String key), get_string, increment_by and increment_by_float (Hash key)
\* return WrongType and leave t:K, d:K and T:K as they were
C1_WrongTypeLeavesTriple ==
    /\ (/\ last.op \in {"put_hash_fields", "get_hash_field"}
        /\ LiveWithTag(last.pre, now, TYPE_STRING))
       => (last.ret.kind = "WrongType" /\ Triple(db, last.key) = last.pre)
    /\ (/\ last.op \in {"get_string", "increment_by", "increment_by_float"}
        /\ LiveWithTag(last.pre, now, TYPE_HASH))
       => (last.ret.kind = "WrongType" /\ Triple(db, last.key) = last.pre)

\* increment_by_float has just failed with WrongType on a live Hash that has
\* a TTL
C1_Witness ==
    /\ last.op = "increment_by_float"
    /\ last.ret.kind = "WrongType"
    /\ LiveWithTag(last.pre, now, TYPE_HASH)
    /\ IsSome(last.pre[3])

\* C2: right after put_string(K, V), whatever K was before, get_string(K) is
\* Some(V) and get_hash_field(K, f) is WrongType for every field f
C2_PutStringThenGet ==
    last.op = "put_string" =>
        /\ last.ret.kind = "Ok"
        /\ get_string(db, now, last.key).ret = RetBytes(Some(last.val))
        /\ \A f \in HashFields :
               get_hash_field(db, now, last.key, f).ret.kind = "WrongType"

\* put_string has just overwritten a Hash whose TTL had elapsed
C2_Witness ==
    /\ last.op = "put_string"
    /\ last.pre[1] = Some(TYPE_HASH)
    /\ Elapsed(last.pre, now)
    /\ get_string(db, now, last.key).ret = RetBytes(Some(last.val))

\* C3: for every key whose TTL record holds a timestamp <= now, exists is 0
\* and get_string is None
C3_ElapsedKeyIsAbsent ==
    \A k \in Keys :
        Elapsed(Triple(db, k), now) =>
            /\ exists(db, k).ret = RetNum(0)
            /\ get_string(db, now, k).ret = RetBytes(None)

\* C4 as stated: after put_string(K, V) and put_expiry(K, delta > 0) at t0,
\* get_string(K) is Some(V) strictly before t0 + delta and None from then on
C4_ExpiresAtDeadline ==
    (scen.stage = "set_expire" /\ scen.delta > 0) =>
        get_string(db, now, scen.key).ret =
            IF now < scen.deadline THEN RetBytes(Some(scen.v)) ELSE RetBytes(None)

\* t0 + delta truncated to whole milliseconds, in ticks
TruncatedDeadline == (scen.deadline \div TicksPerMs) * TicksPerMs

\* C4 amended: get_string(K) is Some(V) strictly before t0 + delta truncated
\* to whole milliseconds, and None from that instant on
C4_ExpiresAtTruncatedDeadline ==
    (scen.stage = "set_expire" /\ scen.delta > 0) =>
        get_string(db, now, scen.key).ret =
            IF now < TruncatedDeadline THEN RetBytes(Some(scen.v))
            ELSE RetBytes(None)

\* the TTL set after put_string has run out and get_string is None, the
\* payload still in the store
C4_Witness ==
    /\ scen.stage = "set_expire"
    /\ scen.delta > 0
    /\ now >= TruncatedDeadline
    /\ db[prepend_key(scen.key, DATA_KEY_PREFIX)] = Some(scen.v)
    /\ get_string(db, now, scen.key).ret = RetBytes(None)

\* C5: after a successful put_string, put_hash_fields, increment_by or
\* increment_by_float on K the TTL record T:K is absent
C5_WriteClearsTtl ==
    (/\ last.op \in {"put_string", "put_hash_fields", "increment_by",
                     "increment_by_float"}
     /\ last.ret.kind = "Ok")
    => db[prepend_key(last.key, TTL_KEY_PREFIX)] = None

\* put_hash_fields has just succeeded on a live Hash that had a TTL
C5_Witness ==
    /\ last.op = "put_hash_fields"
    /\ last.ret.kind = "Ok"
    /\ LiveWithTag(last.pre, now, TYPE_HASH)
    /\ IsSome(last.pre[3])
    /\ db[prepend_key(last.key, TTL_KEY_PREFIX)] = None

\* C6: in every reachable state, for every key, d:K exists iff t:K exists,
\* and T:K exists only if both do
C6_ConsistentTriple ==
    \A k \in Keys :
        LET triple == Triple(db, k)
        IN  /\ IsSome(triple[2]) <=> IsSome(triple[1])
            /\ IsSome(triple[3]) => (IsSome(triple[1]) /\ IsSome(triple[2]))

\* C7: delete(K) returns 1 when t:K is present and 0 otherwise, leaves the
\* three records absent, exists(K) = 0 and get_string(K) = None; a second
\* delete(K) right after it returns 0 and leaves the store as it was
C7_DeleteIdempotent ==
    [][last'.op = "delete" =>
          LET k == last'.key
          IN  /\ last'.ret = RetNum(IF IsSome(Triple(db, k)[1]) THEN 1 ELSE 0)
              /\ Triple(db', k) = Absent
              /\ exists(db', k).ret = RetNum(0)
              /\ get_string(db', now', k).ret = RetBytes(None)
              /\ (last.op = "delete" /\ last.key = k)
                 => (last'.ret = RetNum(0) /\ db' = db)]_vars

\* the integer a counter operation starts from: 0 for a key that is absent
\* or expired, the parsed payload for a live String
OldValue(triple, t) ==
    IF ~Live(triple, t) THEN [ok |-> TRUE, val |-> 0]
    ELSE IF triple[1] # Some(TYPE_STRING) THEN [ok |-> FALSE, val |-> 0]
    ELSE ParseI64(Unwrap(triple[2]))

\* the increment the last call asks for: increment_by(K, amount), INCR,
\* DECR, INCRBY n, DECRBY n
Delta ==
    IF last.op = "increment_by" THEN [ok |-> TRUE, val |-> last.num]
    ELSE IF last.op = "INCR" /\ last.num = 2 THEN [ok |-> TRUE, val |-> 1]
    ELSE IF last.op = "DECR" /\ last.num = 2 THEN [ok |-> TRUE, val |-> -1]
    ELSE IF last.op = "INCRBY" THEN ParseI64(last.val)
    ELSE IF last.op = "DECRBY"
         THEN [ok |-> ParseI64(last.val).ok, val |-> -(ParseI64(last.val).val)]
    ELSE [ok |-> FALSE, val |-> 0]

\* C8: on a key that is absent (old = 0) or a live String holding the decimal
\* text of old, with old + delta in the i64 range, increment_by returns
\* old + delta, INCR, DECR, INCRBY n and DECRBY n reply that integer
\* (delta = 1, -1, n, -n), and get_string then returns its decimal text
C8_IncrementReturnsSum ==
    LET old == OldValue(last.pre, now)
        sum == old.val + Delta.val
    IN  (Delta.ok /\ InI64(Delta.val) /\ old.ok /\ InI64(sum)) =>
            /\ last.op = "increment_by" => last.ret = RetNum(sum)
            /\ last.op # "increment_by" =>
                   (last.ret.kind = "Ok" /\ last.reply = write_integer(sum))
            /\ get_string(db, now, last.key).ret = RetBytes(Some(I64ToString(sum)))

\* DECRBY has just replied old - n, n not 0, on a live String holding a "+"
\* signed text
C8_Witness ==
    /\ last.op = "DECRBY"
    /\ Delta.ok /\ Delta.val # 0
    /\ LiveWithTag(last.pre, now, TYPE_STRING)
    /\ last.pre[2] = Some(<<"+", "1">>)
    /\ last.reply = write_integer(1 + Delta.val)

\* C9: when old + delta is not an i64 (or DECRBY is given i64::MIN) the
\* increment fails with IntegerOverflow and t:K, d:K and T:K are unchanged
C9_OverflowIsAnError ==
    LET old == OldValue(last.pre, now)
    IN  (Delta.ok /\ old.ok /\ ~InI64(old.val + Delta.val)) =>
            /\ last.ret.kind = "IntegerOverflow"
            /\ Triple(db, last.key) = last.pre

\* C10: increment_by on a live String whose payload is not a decimal i64 fails
\* with the parse error, not WrongType, and leaves t:K, d:K and T:K unchanged
C10_BadPayloadIsParseError ==
    (/\ last.op = "increment_by"
     /\ LiveWithTag(last.pre, now, TYPE_STRING)
     /\ ~ParseI64(Unwrap(last.pre[2])).ok)
    => (last.ret.kind = "ParseInt" /\ Triple(db, last.key) = last.pre)

\* increment_by has just failed to parse the payload of a live String that
\* has a TTL
C10_Witness ==
    /\ last.op = "increment_by"
    /\ last.ret.kind = "ParseInt"
    /\ LiveWithTag(last.pre, now, TYPE_STRING)
    /\ IsSome(last.pre[3])
    /\ Triple(db, last.key) = last.pre

---------------------------------------------------------------------------
(* Properties of the expiry commands *)

\* the option words of the command that has just returned, upper-cased
LastOptions == {to_uppercase(last.fields[i]) : i \in 1..Len(last.fields)}

\* the command that has just returned had a number that did not parse
BadNumber ==
    \/ /\ last.op \in {"EXPIRE", "PEXPIRE", "EXPIREAT", "PEXPIREAT"}
       /\ last.num >= 3
       /\ ~ParseU64(Utf8Lossy(last.val)).ok
    \/ /\ last.op = "SETEX"
       /\ last.num = 4
       /\ ~ParseU64(Utf8Lossy(last.val)).ok
    \/ /\ last.op \in {"INCRBY", "DECRBY"}
       /\ last.num = 3
       /\ ~ParseI64(Utf8Lossy(last.val)).ok

\* INCR or DECR has just met a live String whose payload is not an integer
BadPayload ==
    /\ last.op \in {"INCR", "DECR"}
    /\ last.num = 2
    /\ LiveWithTag(last.pre, now, TYPE_STRING)
    /\ ~ParseI64(Utf8Lossy(Unwrap(last.pre[2]))).ok

\* C11: when a numeric argument does not parse, or INCR meets a payload that
\* is not an integer, the client receives the WrongFormat error reply, not
\* an internal error, and the store is not written
C11_ParseFailureIsWrongFormat ==
    (BadNumber \/ BadPayload) =>
        /\ on_command(last.ret, last.reply) = write_error(ClientError_WrongFormat)
        /\ Triple(db, last.key) = last.pre

\* the reply TTL (unit = one second) or PTTL (unit = one millisecond) owes
\* for a key whose triple is tr at instant t
TtlOwed(tr, t, unit) ==
    IF ~Live(tr, t) THEN -2
    ELSE IF tr[3] = None THEN -1
    ELSE (TtlInstant(tr[3]) - t) \div unit

\* C12: TTL and PTTL reply -2 for an absent key, a key whose TTL has elapsed
\* counting as absent, -1 for a key without TTL record, and the remaining
\* seconds or milliseconds otherwise; EXISTS replies 0 for the elapsed key
C12_TtlReplies ==
    /\ (last.op = "TTL" /\ last.num = 2) =>
           last.reply = write_integer(TtlOwed(last.pre, now, TicksPerSec))
    /\ (last.op = "PTTL" /\ last.num = 2) =>
           last.reply = write_integer(TtlOwed(last.pre, now, TicksPerMs))
    /\ (last.op = "EXISTS" /\ last.num = 2 /\ Elapsed(last.pre, now)) =>
           last.reply = write_integer(0)

\* EXPIRE has just returned from a well-formed call: a number that parses
\* and no NX next to XX, GT or LT
ExpireWellFormed ==
    /\ last.op = "EXPIRE"
    /\ last.num >= 3
    /\ ParseU64(Utf8Lossy(last.val)).ok
    /\ ~(<<"N", "X">> \in LastOptions
         /\ LastOptions \cap {<<"X", "X">>, <<"G", "T">>, <<"L", "T">>} # {})

\* C13: EXPIRE on a key that does not exist replies 0 and writes no TTL
\* record; it replies 1 only when the key existed and a TTL record was
\* written
C13_ExpireOnAbsentKey ==
    ExpireWellFormed =>
        /\ ~Live(last.pre, now) =>
               (last.reply = write_integer(0) /\ Triple(db, last.key) = last.pre)
        /\ last.reply = write_integer(1) =>
               (Live(last.pre, now) /\ IsSome(Triple(db, last.key)[3]))

\* the duration EXPIRE has just been given, in ticks
LastSecs == ParseU64(Utf8Lossy(last.val)).val * TicksPerSec

\* the deadline now + duration fits the TTL record
Representable(duration) == (now + duration) \div TicksPerMs <= I64Max

\* the command that has just returned replied 1 and left the TTL record of
\* now + duration
TtlWritten(duration) ==
    /\ last.reply = write_integer(1)
    /\ Triple(db, last.key) =
           <<last.pre[1], last.pre[2],
             Some(I64ToString((now + duration) \div TicksPerMs))>>

\* the command that has just returned replied 0 and left the triple alone
Suppressed ==
    /\ last.reply = write_integer(0)
    /\ Triple(db, last.key) = last.pre

\* C14: on an existing key EXPIRE k s NX writes the TTL and replies 1 only
\* if k has no TTL record, and otherwise replies 0 leaving T:k unchanged;
\* EXPIRE k s XX writes and replies 1 only if k has a TTL record, and
\* otherwise replies 0 leaving T:k absent
C14_ExpireNxXx ==
    (ExpireWellFormed /\ Live(last.pre, now) /\ Representable(LastSecs)) =>
        /\ LastOptions = {<<"N", "X">>} =>
               IF last.pre[3] = None THEN TtlWritten(LastSecs) ELSE Suppressed
        /\ LastOptions = {<<"X", "X">>} =>
               IF IsSome(last.pre[3]) THEN TtlWritten(LastSecs) ELSE Suppressed

\* EXPIRE k 1 nx has just been suppressed on a live key with a TTL
C14_Witness ==
    /\ last.op = "EXPIRE"
    /\ last.fields = <<<<"n", "x">>>>
    /\ Live(last.pre, now)
    /\ IsSome(last.pre[3])
    /\ Suppressed

\* the time the triple's TTL record leaves at instant t
Remaining(tr, t) == TtlInstant(tr[3]) - t

\* C15: on an existing key EXPIRE k s GT writes only if s is strictly
\* greater than the remaining TTL, a missing TTL counting as infinite;
\* EXPIRE k s LT writes only if s is strictly less than the remaining TTL,
\* and writes when there is no TTL; a suppressed write replies 0 and leaves
\* T:k unchanged
C15_ExpireGtLt ==
    (ExpireWellFormed /\ Live(last.pre, now) /\ Representable(LastSecs)) =>
        /\ LastOptions = {<<"G", "T">>} =>
               IF IsSome(last.pre[3]) /\ LastSecs > Remaining(last.pre, now)
               THEN TtlWritten(LastSecs) ELSE Suppressed
        /\ LastOptions = {<<"L", "T">>} =>
               IF last.pre[3] = None \/ LastSecs < Remaining(last.pre, now)
               THEN TtlWritten(LastSecs) ELSE Suppressed

\* C16: EXPIRE with a number that parses and NX next to XX, GT or LT, in any
\* order and letter case, replies the option-conflict error and leaves the
\* triple as it was
C16_NxConflict ==
    (/\ last.op = "EXPIRE"
     /\ ParseU64(Utf8Lossy(last.val)).ok
     /\ <<"N", "X">> \in LastOptions
     /\ LastOptions \cap {<<"X", "X">>, <<"G", "T">>, <<"L", "T">>} # {}) =>
        /\ last.reply = write_error(ClientError_ExpireNxOptions)
        /\ last.ret = RetUnit
        /\ Triple(db, last.key) = last.pre

\* EXPIRE k s GT nx has just been refused on a live key with a TTL
C16_Witness ==
    /\ last.op = "EXPIRE"
    /\ last.fields = <<<<"G", "T">>, <<"n", "x">>>>
    /\ Live(last.pre, now)
    /\ IsSome(last.pre[3])
    /\ last.reply = write_error(ClientError_ExpireNxOptions)

\* C18: PEXPIRE, EXPIREAT and PEXPIREAT honour the modifiers of EXPIRE: with
\* NX on a live key that has a TTL they reply 0 and leave T:k unchanged
C18_VariantsHonourModifiers ==
    (/\ last.op \in {"PEXPIRE", "EXPIREAT", "PEXPIREAT"}
     /\ ParseU64(Utf8Lossy(last.val)).ok
     /\ LastOptions = {<<"N", "X">>}
     /\ Live(last.pre, now)
     /\ IsSome(last.pre[3])) => Suppressed

---------------------------------------------------------------------------
(* Properties of two connections *)

\* connection c sent cmd, and its handler has returned Ok
Completed(c, cmd) ==
    conns[c].cmd = cmd /\ Done(c) /\ conns[c].ret.kind = "Ok"

\* C17: the NX predicate of EXPIRE is evaluated in the transaction that
\* writes the TTL: of two EXPIRE k s NX sent while k is live and has no TTL
\* record, exactly one replies 1 and the other replies 0
C17_OneNxWins ==
    (\A c \in Conns :
        /\ Completed(c, "EXPIRE NX")
        /\ IsSome(conns[c].pre[1])
        /\ conns[c].pre[3] = None) =>
        Cardinality({c \in Conns : conns[c].reply = write_integer(1)}) = 1

\* C19: SETEX is one transaction: the committed store never holds the value
\* SETEX wrote without a TTL record, neither while the handler runs nor
\* after it has failed
C19_SetexAtomic ==
    \A c \in Conns :
        (/\ conns[c].cmd = "SETEX"
         /\ db[prepend_key(conns[c].key, DATA_KEY_PREFIX)] = Some(SetexValue))
        => IsSome(db[prepend_key(conns[c].key, TTL_KEY_PREFIX)])

\* C20: when a put_string (SET) of one connection and a put_expiry (EXPIRE)
\* of another have both committed, the store is what one of the two serial
\* orders leaves: the value with the TTL if put_expiry committed last, the
\* value without TTL if put_string committed last
C20_SetExpireSerial ==
    \A a \in Conns, b \in Conns :
        (Completed(a, "SET") /\ Completed(b, "EXPIRE")) =>
            /\ Len(commits) = 2
            /\ Triple(db, conns[a].key) =
                   <<Some(TYPE_STRING), Some(SetValue),
                     IF commits[2].conn = a THEN None
                     ELSE commits[2].writes[1].val>>

\* put_string committed last, and put_expiry committed while put_string
\* already held a lock
C20_Witness ==
    \E a \in Conns, b \in Conns :
        /\ Completed(a, "SET")
        /\ Completed(b, "EXPIRE")
        /\ commits[1].conn = b
        /\ commits[1].overlap
        /\ commits[2].conn = a
        /\ IsSome(conns[a].pre[3])

---------------------------------------------------------------------------
(* Properties of the hash calls and of calls on an expired key *)

\* C23: a successful put_hash_fields returns the number of pairs of its
\* argument list, overwritten and repeated fields included, and HSET on a
\* key that is not a live String replies with the number of its pairs
C23_HsetCountsPairs ==
    /\ (last.op = "put_hash_fields" /\ last.ret.kind = "Ok")
       => last.ret.num = Len(last.fields)
    /\ (/\ last.op = "HSET"
        /\ last.num >= 4
        /\ last.num % 2 = 0
        /\ ~LiveWithTag(last.pre, now, TYPE_STRING))
       => last.reply = write_integer(Len(last.fields))

\* HSET with two pairs naming the same field, on a Hash that has the field,
\* has replied 2
C23_Witness ==
    /\ last.op = "HSET"
    /\ Len(last.fields) = 2
    /\ last.fields[1][1] = last.fields[2][1]
    /\ LiveWithTag(last.pre, now, TYPE_HASH)
    /\ get_hash_field(StoreOf(last.pre), now, last.key, last.fields[1][1]).ret.bytes # None
    /\ last.reply = write_integer(2)

\* the positions of fields whose pair names field f
Naming(fields, f) == {i \in 1..Len(fields) : fields[i][1] = f}

\* the value of the last pair of fields that names f
LastValue(fields, f) ==
    fields[CHOOSE i \in Naming(fields, f) : \A j \in Naming(fields, f) : j <= i][2]

\* C24: after a successful put_hash_fields(K, pairs) on a live Hash or an
\* absent key, get_hash_field(K, f) is the value of the last pair naming f
\* when a pair names f, and what it was before the call when none does
C24_HashMerge ==
    (/\ last.op = "put_hash_fields"
     /\ last.ret.kind = "Ok"
     /\ (LiveWithTag(last.pre, now, TYPE_HASH) \/ last.pre = Absent))
    => \A f \in HashFields :
           get_hash_field(db, now, last.key, f).ret =
               IF Naming(last.fields, f) # {}
               THEN RetBytes(Some(LastValue(last.fields, f)))
               ELSE get_hash_field(StoreOf(last.pre), now, last.key, f).ret

\* C25: increment_by and put_hash_fields on a key whose TTL has elapsed act
\* as on an absent key, whatever the tag left behind: increment_by returns
\* its amount, put_hash_fields builds the map from its pairs alone, and the
\* key ends with the type of the operation and no TTL record
C25_ExpiredKeyIsAbsentToWriters ==
    /\ (last.op = "increment_by" /\ Elapsed(last.pre, now))
       => /\ last.ret = RetNum(last.num)
          /\ Triple(db, last.key) =
                 <<Some(TYPE_STRING), Some(I64ToString(last.num)), None>>
    /\ (last.op = "put_hash_fields" /\ Elapsed(last.pre, now))
       => /\ last.ret = RetNum(Len(last.fields))
          /\ Triple(db, last.key)[1] = Some(TYPE_HASH)
          /\ Triple(db, last.key)[3] = None
          /\ from_json(Utf8Lossy(Unwrap(Triple(db, last.key)[2]))) =
                 [ok |-> TRUE, dict |-> InsertFields(EmptyDict, last.fields, 1)]

\* increment_by has returned its amount on an expired key tagged Hash, and
\* put_hash_fields can start from nothing on an expired String
C25_Witness ==
    /\ last.op = "increment_by"
    /\ Elapsed(last.pre, now)
    /\ last.pre[1] = Some(TYPE_HASH)
    /\ last.ret.kind = "Ok"
    /\ Triple(db, last.key)[1] = Some(TYPE_STRING)

---------------------------------------------------------------------------
(* Properties of the TTL encoding *)

\* C30: every duration for which now + duration in milliseconds fits an i64
\* is serialised, and parse_timestamp of the text is now at the encoding
\* plus the duration, truncated to whole milliseconds
C30_TimestampRoundTrip ==
    /\ (/\ last.op = "serialize_duration_as_timestamp"
        /\ (now + last.num) \div TicksPerMs <= I64Max)
       => (last.ret.kind = "Ok" /\ scen.stage = "encoded")
    /\ (last.op = "parse_timestamp" /\ scen.stage = "encoded")
       => last.ret = RetNum(TruncatedDeadline)

\* a text encoded for an instant that is not a whole millisecond has been
\* parsed after the clock moved on
C30_Witness ==
    /\ last.op = "parse_timestamp"
    /\ scen.stage = "encoded"
    /\ scen.delta > 0
    /\ scen.deadline % TicksPerMs # 0
    /\ now > scen.deadline - scen.delta
    /\ last.ret.kind = "Ok"

---------------------------------------------------------------------------
(* Properties of GETRANGE and SUBSTR *)

\* the position an index names in a text whose last position is end_index
Normalised(end_index, x) ==
    IF x > end_index THEN end_index
    ELSE IF x >= 0 THEN x
    ELSE end_index + x + 1

\* C26: GETRANGE/SUBSTR k s e on a String of n > 0 bytes replies the bytes
\* at the normalised positions s'..e' when s' <= e', one byte when they are
\* equal, and the empty string when s' > e' or the key is absent
C26_RangeInclusive ==
    (/\ last.op \in {"GETRANGE", "SUBSTR"}
     /\ last.num = 4
     /\ ParseI64(last.fields[1]).ok
     /\ ParseI64(last.fields[2]).ok)
    => LET val == Unwrap(last.pre[2])
           s == Normalised(Len(val) - 1, ParseI64(last.fields[1]).val)
           e == Normalised(Len(val) - 1, ParseI64(last.fields[2]).val)
       IN  /\ last.pre = Absent => last.reply = write_bulk(<<>>)
           /\ (/\ LiveWithTag(last.pre, now, TYPE_STRING)
               /\ Len(val) > 0
               /\ s >= 0
               /\ e >= 0)
              => last.reply = write_bulk(IF s <= e THEN Slice(val, s, e)
                                         ELSE <<>>)

---------------------------------------------------------------------------
(* Properties of DEL and UNLINK *)

C27_DelCountsStoredKeys ==
    (last.op \in {"DEL", "UNLINK"} /\ last.num >= 2 /\ ~Elapsed(last.pre, now))
    => /\ last.reply = write_integer(IF IsSome(last.pre[1]) THEN 1 ELSE 0)
       /\ \A i \in 1..Len(last.fields) :
              /\ db[prepend_key(last.fields[i], TYPE_KEY_PREFIX)] = None
              /\ db[prepend_key(last.fields[i], DATA_KEY_PREFIX)] = None

---------------------------------------------------------------------------
(* Properties of two connections calling the storage layer *)

\* the triples the key of connection c had from the moment its call began
TriplesSince(c) ==
    {conns[c].pre}
    \cup {commits[i].after : i \in (conns[c].since + 1)..Len(commits)}

\* C21: get_string and get_hash_field running while another connection
\* writes the key return the result for one whole triple, the one before
\* the write or the one after it, never for records of both
C21_ReadersSeeWholeTriples ==
    \A c \in Conns :
        (conns[c].cmd \in Readers /\ Done(c))
        => \E tr \in TriplesSince(c) :
               /\ Triple(conns[c].seen, conns[c].key) = tr
               /\ conns[c].ret =
                      IF conns[c].cmd = "get_string"
                      THEN get_string(StoreOf(tr), now, conns[c].key).ret
                      ELSE get_hash_field(StoreOf(tr), now, conns[c].key,
                                          conns[c].val).ret

\* a reader that began before a writer committed has returned the triple
\* the writer left, one that differs from the old one in all three records
C21_Witness ==
    \E c \in Conns :
        /\ conns[c].cmd \in Readers
        /\ Done(c)
        /\ Len(commits) > conns[c].since
        /\ Triple(conns[c].seen, conns[c].key) = commits[Len(commits)].after
        /\ \A i \in 1..3 : conns[c].pre[i] # commits[Len(commits)].after[i]

\* the integer a triple holds for increment_by: 0 when the key is absent
StoredInt(tr) == IF tr[2] = None THEN 0 ELSE ParseI64(Unwrap(tr[2])).val

\* the call of connection c has returned Ok
Succeeded(c) == Done(c) /\ conns[c].ret.kind = "Ok"

\* C22: when two connections have called increment_by on a key that was
\* absent or held an integer, the stored integer is the initial one plus
\* the amounts of the calls that succeeded, and the values returned are
\* those of the calls run one after the other in some order
C22_NoLostIncrement ==
    (/\ \A c \in Conns : conns[c].cmd = "increment_by" /\ Done(c)
     /\ \E c \in Conns : conns[c].since = 0 /\ conns[c].pre[1] # Some(TYPE_HASH))
    => LET first == CHOOSE c \in Conns : conns[c].since = 0
           initial == StoredInt(conns[first].pre)
           ok == {c \in Conns : Succeeded(c)}
           a == CHOOSE c \in Conns : TRUE
           b == CHOOSE c \in Conns : c # a
       IN  /\ ok # {} =>
                  StoredInt(Triple(db, conns[first].key)) =
                      initial + (IF a \in ok THEN conns[a].num ELSE 0)
                              + (IF b \in ok THEN conns[b].num ELSE 0)
           /\ ok = {} => StoredInt(Triple(db, conns[first].key)) = initial
           /\ \A c \in ok :
                  \/ conns[c].ret.num = initial + conns[c].num
                  \/ \E o \in ok \ {c} :
                         /\ conns[o].ret.num = initial + conns[o].num
                         /\ conns[c].ret.num = conns[o].ret.num + conns[c].num

\* both increments succeeded, the second one having waited for the lock of
\* the first: it began before the first committed
C22_Witness ==
    /\ \A c \in Conns : conns[c].cmd = "increment_by" /\ Succeeded(c)
    /\ \A c \in Conns : conns[c].since = 0
    /\ Len(commits) = 2
    /\ \E c \in Conns : conns[c].ret.num # StoredInt(conns[c].pre) + conns[c].num

---------------------------------------------------------------------------
(* Properties of the server *)

\* C28: a connection has at most one handler running, and reads command
\* N+1 only when the handler of command N has returned
C28_OneCommandAtATime ==
    \A c \in Conns :
        /\ srv.tasks[c].running <= 1
        /\ srv.tasks[c].read <= srv.tasks[c].replied + 1
        /\ srv.tasks[c].pos = "select" => srv.tasks[c].read = srv.tasks[c].replied
        /\ srv.tasks[c].pos = "on_command" =>
               srv.tasks[c].read = srv.tasks[c].replied + 1

\* the second command of a connection is being handled, sent while the
\* first was, and the first has been answered
C28_Witness ==
    \E c \in Conns :
        /\ srv.tasks[c].pos = "on_command"
        /\ srv.tasks[c].read = 2
        /\ srv.tasks[c].replied = 1
        /\ srv.tasks[c].arrived = 2

\* a step that accepts no connection
AcceptsNone ==
    \A c \in Conns : srv.tasks[c].pos = "none" => srv'.tasks[c].pos = "none"

\* a task waiting for a frame once the shutdown future is ready ends
WaitingTasksExit ==
    \A c \in Conns :
        (srv.fired /\ srv.tasks[c].pos = "select")
            ~> (srv.tasks[c].pos = "closed")

\* serve() has returned only if every task has ended
ReturnsAfterTasks ==
    [](srv.phase = "returned" =>
           \A c \in Conns : srv.tasks[c].pos \in {"none", "closed"})

\* C29: once the shutdown future is ready no connection is accepted, every
\* task waiting for a frame ends, and serve() returns only after every
\* task has ended
C29_ShutdownFromSignal ==
    /\ [][srv.fired => AcceptsNone]_vars
    /\ WaitingTasksExit
    /\ ReturnsAfterTasks

\* C29 amended: no connection is accepted once serve() has left its select
C29_ShutdownFromSelect ==
    /\ [][srv.phase # "running" => AcceptsNone]_vars
    /\ WaitingTasksExit
    /\ ReturnsAfterTasks

\* serve() has returned after a shutdown that found both connections open,
\* one of them with a command answered
C29_Witness ==
    /\ srv.fired
    /\ srv.phase = "returned"
    /\ \A c \in Conns : srv.tasks[c].pos = "closed"
    /\ \E c \in Conns : srv.tasks[c].replied > 0

---------------------------------------------------------------------------
(* Properties of the TTL operations *)

TtlOps == {"put_expiry", "delete_expiry"}

\* C31: put_expiry and delete_expiry leave the type record and the data
\* record of their key as they were: a stored key keeps its tag and its
\* payload, and neither record is created for a key that has none
C31_TtlOpsKeepTypeAndData ==
    last.op \in TtlOps
        => /\ Triple(db, last.key)[1] = last.pre[1]
           /\ Triple(db, last.key)[2] = last.pre[2]

\* put_expiry gave a TTL to a live key that had none, and the tag and the
\* payload are still there
C31_Witness ==
    /\ last.op = "put_expiry"
    /\ last.ret.kind = "Ok"
    /\ Live(last.pre, now)
    /\ last.pre[3] = None
    /\ IsSome(Triple(db, last.key)[3])
    /\ IsSome(Triple(db, last.key)[2])

---------------------------------------------------------------------------
(* Properties of PERSIST and of the absolute expiry times *)

\* C32: PERSIST replies 1 exactly when the key had a TTL record, which it
\* removed, and 0 when there was none (the key without TTL, the key not
\* stored); afterwards the key has no TTL record
C32_PersistReply ==
    (last.op = "PERSIST" /\ last.num = 2)
        => /\ last.reply = write_integer(IF IsSome(last.pre[3]) THEN 1 ELSE 0)
           /\ Triple(db, last.key)[3] = None

\* PERSIST leaves no TTL record behind, whatever it replies
PersistRemovesTtl ==
    (last.op = "PERSIST" /\ last.num = 2) => Triple(db, last.key)[3] = None

ExpireAtOps == {"EXPIREAT", "PEXPIREAT"}

ExpireTimeOps == {"EXPIRETIME", "PEXPIRETIME"}

UnitOf(op) ==
    IF op \in {"EXPIREAT", "EXPIRETIME"} THEN TicksPerSec ELSE TicksPerMs

\* the instant named by the number of the last command, on the clock, and
\* in milliseconds
AtInstant == ParseU64(last.val).val * UnitOf(last.op)

AtMs == AtInstant \div TicksPerMs

\* EXPIREAT or PEXPIREAT, with a key and a number
SetsExpireAt ==
    last.op \in ExpireAtOps /\ last.num >= 3 /\ ParseU64(last.val).ok

\* the last command left the timestamp it was given, or made the key
\* expire at once when the timestamp was not in the future
StoredAsGiven ==
    IF AtInstant > now
    THEN Triple(db, last.key)[3] = Some(I64ToString(AtMs))
    ELSE get_string(db, now, last.key).ret = RetBytes(None)

\* EXPIRETIME and PEXPIRETIME of a key whose TTL has not elapsed reply the
\* stored timestamp in their unit
RepliesStoredTime ==
    (/\ last.op \in ExpireTimeOps
     /\ last.num = 2
     /\ IsSome(last.pre[3])
     /\ TtlInstant(last.pre[3]) > now)
        => last.reply = write_integer(TtlInstant(last.pre[3]) \div UnitOf(last.op))

C33_WitnessPast ==
    /\ last.op = "EXPIREAT"
    /\ SetsExpireAt
    /\ AtInstant <= now
    /\ Live(last.pre, now)
    /\ last.reply = write_integer(1)

---------------------------------------------------------------------------
(* Properties of the index normalisation and of the bitmap commands *)

\* C34: adjust_indices returns for every end_index >= 0 and every signed
\* start and end, also below -(end_index + 1), and each result is the
\* normalised index (x > end_index gives end_index, 0 <= x <= end_index
\* gives x, x < 0 gives end_index + x + 1), a value in 0..end_index
C34_AdjustIndicesTotal ==
    last.op = "adjust_indices"
        => /\ last.ret.kind = "Ok"
           /\ \A i \in 1..2 :
                /\ Unwrap(last.ret.bytes)[i] = Normalised(last.num, last.fields[i])
                /\ Unwrap(last.ret.bytes)[i] \in 0..last.num

\* whenever adjust_indices returns, its results follow the three rules
AdjustIndicesRules ==
    (last.op = "adjust_indices" /\ last.ret.kind = "Ok")
        => \A i \in 1..2 :
             /\ Unwrap(last.ret.bytes)[i] = Normalised(last.num, last.fields[i])
             /\ Unwrap(last.ret.bytes)[i] \in 0..last.num

\* the positions of the 1-bits of a byte vector inside [s, e)
OnesIn(data, s, e) ==
    {pos \in 0..(Len(data) * ByteBits - 1) :
        pos >= s /\ pos < e /\ BitAt(data, pos) = 1}

\* the BIT form of the last BITCOUNT, with both indices inside the value
BitCountInRange ==
    /\ last.op = "BITCOUNT"
    /\ last.num = 5
    /\ LiveWithTag(last.pre, now, TYPE_STRING)
    /\ ParseI64(last.fields[1]).val >= 0
    /\ ParseI64(last.fields[1]).val <= ParseI64(last.fields[2]).val
    /\ ParseI64(last.fields[2]).val < Len(Unwrap(last.pre[2])) * ByteBits

\* C35: for 0 <= s <= e <= bits of B, bit_range(B, s, e) is as long as B,
\* equals B on the positions in [s, e) and is zero elsewhere, so its
\* popcount is the number of 1-bits of B in [s, e); BITCOUNT k s e BIT
\* replies that number for the inclusive range s..e
C35_BitRangeKeepsRange ==
    /\ last.op = "bit_range"
        => LET result == Unwrap(last.ret.bytes)
               s == last.fields[1]
               e == last.fields[2]
           IN  /\ Len(result) = Len(last.val)
               /\ \A pos \in 0..(Len(last.val) * ByteBits - 1) :
                    BitAt(result, pos) = IF pos >= s /\ pos < e
                                         THEN BitAt(last.val, pos) ELSE 0
               /\ count_ones(result) = Cardinality(OnesIn(last.val, s, e))
    /\ BitCountInRange
        => last.reply = write_integer(Cardinality(
               OnesIn(Unwrap(last.pre[2]), ParseI64(last.fields[1]).val,
                      ParseI64(last.fields[2]).val + 1)))

\* C36: find_first_bit_pos(B, needle, s, e) returns the least position in
\* [s, e) whose bit equals needle, also when the byte of that position has
\* a matching bit before s, and None only when no position in [s, e)
\* matches
C36_FirstBitInRange ==
    last.op = "find_first_bit_pos"
        => LET hits == {pos \in 0..(Len(last.val) * ByteBits - 1) :
                           /\ pos >= last.fields[1]
                           /\ pos < last.fields[2]
                           /\ BitAt(last.val, pos) = last.num}
           IN  last.ret.bytes = IF hits = {} THEN None
                                ELSE Some(CHOOSE p \in hits :
                                              \A q \in hits : p <= q)

\* a BITCOUNT whose arguments are a key alone, or a key and two numbers
\* with or without the unit BIT
BitCountWellFormed ==
    /\ last.op = "BITCOUNT"
    /\ last.num \in {2, 4, 5}
    /\ last.num > 2 => ParseI64(last.fields[1]).ok /\ ParseI64(last.fields[2]).ok

\* C37: BITCOUNT replies an integer and does not fail, whatever the key
\* holds and whatever the two signed indices are, in either unit: 0 for an
\* absent key and for the empty string, and 0 when the normalised start is
\* greater than the normalised end
C37_BitCountTotal ==
    BitCountWellFormed
        => LET val == IF last.pre[2] = None THEN <<>> ELSE Unwrap(last.pre[2])
               end_index == IF last.num = 5 THEN Len(val) * ByteBits - 1
                            ELSE Len(val) - 1
               s == Normalised(end_index, ParseI64(last.fields[1]).val)
               e == Normalised(end_index, ParseI64(last.fields[2]).val)
           IN  /\ last.ret.kind = "Ok"
               /\ last.reply.kind = "integer"
               /\ Len(val) = 0 => last.reply.num = 0
               /\ (last.num > 2 /\ Len(val) > 0 /\ s > e) => last.reply.num = 0

---------------------------------------------------------------------------
(* Properties of two deletes *)

\* both connections called delete on a stored key before either committed,
\* and both calls have returned Ok
TwoDeletesReturned ==
    \A c \in Conns :
        /\ conns[c].cmd = "delete"
        /\ Succeeded(c)
        /\ conns[c].since = 0
        /\ conns[c].pre[1] # None

\* C38: of two delete(K) running at the same time on a stored key, with no
\* other writer, one returns 1 and the other 0: the sum of the two results
\* is the number of keys removed
C38_OneDeleteCounts ==
    TwoDeletesReturned
        => \E c \in Conns :
             /\ conns[c].ret.num = 1
             /\ \A o \in Conns \ {c} : conns[o].ret.num = 0

\* whatever the two deletes return, the key is gone once both have returned
TwoDeletesRemoveKey ==
    TwoDeletesReturned
        => \A c \in Conns : Triple(db, conns[c].key) = Absent

---------------------------------------------------------------------------
(* Properties of the connection task *)

\* C39: the handler of an accepted connection sees on_open once, then any
\* number of on_command, then on_close once, whether run_inner returned
\* after a shutdown or with a read error, and no on_command after on_close
C39_CallbackOrder ==
    \A c \in Conns :
        /\ srv.tasks[c].cb # "bad"
        /\ srv.tasks[c].pos = "none" <=> srv.tasks[c].cb = "none"
        /\ srv.tasks[c].pos = "closed" <=> srv.tasks[c].cb = "closed"
        /\ srv.tasks[c].pos = "closed" => srv.tasks[c].running = 0

\* a connection that answered a command was closed by a read error, and
\* its handler has seen on_close
C39_Witness ==
    \E c \in Conns :
        /\ srv.tasks[c].pos = "closed"
        /\ srv.tasks[c].result = "Err"
        /\ srv.tasks[c].cb = "closed"
        /\ srv.tasks[c].replied > 0

\* the peer of connection c has closed, every frame it sent was read, and
\* what it sent ended with a whole frame
CleanEof(c) ==
    /\ srv.tasks[c].eof = "clean"
    /\ srv.tasks[c].read = srv.tasks[c].arrived
    /\ srv.tasks[c].pos = "select"

\* C40: a task whose peer has closed cleanly ends, shutdown or not, and no
\* command is dispatched once read_frame has returned Ok(None)
C40_EofEndsTask ==
    /\ \A c \in Conns : CleanEof(c) ~> (srv.tasks[c].pos = "closed")
    /\ [](\A c \in Conns : ~srv.tasks[c].spun)

====
